---- MODULE Spec2Model ----
(***************************************************************************)
(* Model of the HTTP access layer of mcp-canvas-lms (src/src/client.ts):   *)
(* the axios response interceptors of CanvasClient (pagination drain,      *)
(* retry guard, error transformation) and the composite accessor           *)
(* getCourseStudents.                                                      *)
(*                                                                         *)
(* One HTTP call through the axios instance is a frame; a call made from   *)
(* inside the response interceptor (the pagination follow-up of line 122)  *)
(* is a frame pushed on top of the frame that awaits it.                   *)
(***************************************************************************)
EXTENDS Integers, Sequences, FiniteSets, TLC

VARIABLES
    maxRetries,   \* this.maxRetries, set by the constructor
    retryDelay,   \* this.retryDelay, set by the constructor
    pages,        \* the remote collection: pages[u] is what URL u serves
    behaviour,    \* the remote API's failures: behaviour[u] for URL u
    attempts,     \* attempts[u]: HTTP requests that reached URL u so far
    stack,        \* stack[c]: the frames of call c, innermost last
    requests,     \* requests[c]: the HTTP requests call c issued, in order
    waits,        \* every delay slept before a retry, in order
    outcome,      \* outcome[c]: what the caller of call c got
    roster,       \* the state of getCourseStudents
    tool,         \* the state of the call-tool handler of the MCP server
    bulk,         \* the state of a bulk accessor looping over entities
    canvasTimeout,\* config.canvas.timeout of the server, in ms
    timeout,      \* the timeout of the axios instance, in ms
    health        \* the state of healthCheck

vars == <<maxRetries, retryDelay, pages, behaviour, attempts, stack,
          requests, waits, outcome, roster, tool, bulk, canvasTimeout, timeout, health>>

---------------------------------------------------------------------------
(* Bounds of the model *)

MaxPages == 3
MaxItems == 2
MaxRetriesBound == 2
MaxStudents == 3
MaxCalls == 2
MaxEntities == 2

---------------------------------------------------------------------------
(* Values *)

NoUrl == 0                       \* null, as returned by getNextPageUrl

Min(a, b) == IF a < b THEN a ELSE b

RECURSIVE Pow2(_)
Pow2(n) == IF n <= 0 THEN 1 ELSE 2 * Pow2(n - 1)        \* Math.pow(2, n)

\* The errors property of a body: absent, or a value that is an array of
\* elements or not.  An element is a string (text) or an object with a
\* message.
NoErrors == [present |-> FALSE, isArray |-> FALSE, list |-> <<>>]
Errors(list) == [present |-> TRUE, isArray |-> TRUE, list |-> list]

\* A body is tagged with its JavaScript shape.  items: the elements of an
\* array or the characters of a string; message: the message property of an
\* object ("" when it has none or an empty one); hasMessage: the object has a
\* message property; errors: its errors property.
Body(shape, items, message) ==
    [shape |-> shape, items |-> items, message |-> message,
     hasMessage |-> message # "", errors |-> NoErrors]

\* An object { errors: [...] }.
ErrorsBody(list) == [Body("object", <<>>, "") EXCEPT !.errors = Errors(list)]

NullBody == Body("null", <<>>, "")

IsArray(data) == data.shape = "array"                    \* Array.isArray

\* A link header: absent (headers.link is undefined), or a list of
\* <url>; rel="..." entries.
NoLink == [present |-> FALSE, rels |-> <<>>]
Link(rels) == [present |-> TRUE, rels |-> rels]

NoHeaders == [link |-> NoLink, ctype |-> ""]

NoResponse == [status |-> 0, data |-> NullBody, headers |-> NoHeaders]

\* An AxiosError: response is set when the server answered, request when the
\* request was sent.
\* error.config is set whenever the failure belongs to a request.
\* name: the name of the error value handed to the error interceptor.
AxiosError(hasResponse, hasRequest, response, message) ==
    [name |-> "AxiosError",
     hasResponse |-> hasResponse, hasRequest |-> hasRequest,
     hasConfig |-> TRUE, response |-> response, message |-> message]

NoError == AxiosError(FALSE, FALSE, NoResponse, "")

\* What a call throws.  name "CanvasAPIError" is the Typed Error.
Thrown(name, text, msgStatus, detail, status, data) ==
    [name |-> name,
     message |-> [text |-> text, status |-> msgStatus, detail |-> detail],
     status |-> status, data |-> data]

NoThrown == Thrown("", "", 0, <<"", <<>>, "">>, 0, NullBody)

\* config.__retryCount: undefined until the interceptor assigns it.
UndefinedCount == [defined |-> FALSE, n |-> 0]
Count(n) == [defined |-> TRUE, n |-> n]

---------------------------------------------------------------------------
(* CanvasClient: pure helpers *)

\* JavaScript a < b for a possibly undefined a: undefined converts to NaN and
\* every comparison with NaN is false.
JsLess(c, m) == c.defined /\ c.n < m

\* JavaScript c || 0
OrZero(c) == IF c.defined THEN c.n ELSE 0

\* shouldRetry taking every status from 429 on for retryable.
shouldRetryFrom429(error) ==
    IF ~error.hasResponse THEN TRUE
    ELSE error.response.status >= 429

shouldRetry(error) ==
    IF ~error.hasResponse THEN TRUE
    ELSE error.response.status = 429 \/ error.response.status >= 500

\* RetryGuard with the classification of the failure left out.
RetryGuardAnyFailure(error, retryCount) ==
    error.hasConfig /\ OrZero(retryCount) < maxRetries

\* RetryGuard letting one retry more than maxRetries through.
RetryGuardOneMore(error, retryCount) ==
    shouldRetry(error) /\ error.hasConfig /\ OrZero(retryCount) <= maxRetries

\* The guard of the retry branch.
RetryGuard(error, retryCount) ==
    shouldRetry(error) /\ error.hasConfig /\ JsLess(retryCount, maxRetries)

\* The delay of the retry that makes the counter `count`.
BackoffDelay(count) == retryDelay * Pow2(count - 1)

\* getNextPageUrl looking for rel="first" instead of rel="next".
getNextPageUrlFirst(linkHeader) ==
    LET idx == {i \in 1..Len(linkHeader.rels) : linkHeader.rels[i].rel = "first"}
    IN  IF idx = {} THEN NoUrl
        ELSE linkHeader.rels[CHOOSE i \in idx : \A j \in idx : i <= j].url

\* links.find(link => link.includes('rel="next"')), then the <...> part.
getNextPageUrl(linkHeader) ==
    LET idx == {i \in 1..Len(linkHeader.rels) : linkHeader.rels[i].rel = "next"}
    IN  IF idx = {} THEN NoUrl
        ELSE linkHeader.rels[CHOOSE i \in idx : \A j \in idx : i <= j].url

\* headers['content-type'].includes('application/json')
IsJson(ctype) == ctype \in {"application/json", "application/json; charset=utf-8"}

\* ShouldPaginate with the content type left unchecked.
ShouldPaginateAnyType(response) ==
    IsArray(response.data) /\ response.headers.link.present

\* The condition under which the success interceptor drains the pages.
ShouldPaginate(response) ==
    /\ IsArray(response.data)
    /\ response.headers.link.present
    /\ IsJson(response.headers.ctype)

\* ErrorMessage with the errors array looked at before the message.
ErrorMessageErrorsFirst(data) ==
    IF data.shape = "string"
    THEN IF Len(data.items) > 200
         THEN <<"substring", SubSeq(data.items, 1, 200), "...">>
         ELSE <<"string", data.items, "">>
    ELSE IF data.shape \in {"object", "array"}
         THEN IF data.errors.present /\ data.errors.isArray
              THEN <<"join", [i \in 1..Len(data.errors.list) |->
                                IF data.errors.list[i].message # ""
                                THEN data.errors.list[i].message
                                ELSE data.errors.list[i].text], ", ">>
              ELSE IF data.message # ""
              THEN <<"message", <<>>, data.message>>
              ELSE <<"JSON.stringify", data.items, data.shape>>
         ELSE <<"String", <<>>, data.shape>>

\* ErrorMessage cutting a long string without marking the cut.
ErrorMessageNoMarker(data) ==
    IF data.shape = "string"
    THEN <<"string", SubSeq(data.items, 1, Min(Len(data.items), 200)), "">>
    ELSE IF data.shape \in {"object", "array"}
         THEN IF data.message # ""
              THEN <<"message", <<>>, data.message>>
              ELSE IF data.errors.present /\ data.errors.isArray
              THEN <<"join", [i \in 1..Len(data.errors.list) |->
                                IF data.errors.list[i].message # ""
                                THEN data.errors.list[i].message
                                ELSE data.errors.list[i].text], ", ">>
              ELSE <<"JSON.stringify", data.items, data.shape>>
         ELSE <<"String", <<>>, data.shape>>

\* errorMessage of the error transformation.
ErrorMessage(data) ==
    IF data.shape = "string"
    THEN IF Len(data.items) > 200
         THEN <<"substring", SubSeq(data.items, 1, 200), "...">>
         ELSE <<"string", data.items, "">>
    ELSE IF data.shape \in {"object", "array"}
         THEN IF data.message # ""
              THEN <<"message", <<>>, data.message>>
              ELSE IF data.errors.present /\ data.errors.isArray
              THEN <<"join", [i \in 1..Len(data.errors.list) |->
                                IF data.errors.list[i].message # ""
                                THEN data.errors.list[i].message
                                ELSE data.errors.list[i].text], ", ">>
              ELSE <<"JSON.stringify", data.items, data.shape>>
         ELSE <<"String", <<>>, data.shape>>

\* ResponseError carrying the detail in place of the raw body.
ResponseErrorDetailAsBody(response) ==
    Thrown("CanvasAPIError", "Canvas API Error (status): detail",
           response.status, ErrorMessage(response.data),
           response.status,
           IF response.data.shape = "string"
           THEN [response.data EXCEPT !.items = ErrorMessage(response.data)[2]]
           ELSE response.data)

\* new CanvasAPIError(`Canvas API Error (${status}): ${errorMessage}`, status, data)
ResponseError(response) ==
    Thrown("CanvasAPIError", "Canvas API Error (status): detail",
           response.status, ErrorMessage(response.data),
           response.status, response.data)

\* new CanvasAPIError(`Network error: ${error.message}`, 0, null)
NetworkError(error) ==
    Thrown("CanvasAPIError", "Network error: detail", 0,
           <<"message", <<>>, error.message>>, 0, NullBody)

\* throw error: the error itself reaches the caller.
Unwrapped(error) ==
    Thrown(error.name, "", 0, <<"message", <<>>, error.message>>, 0, NullBody)

\* What the engine throws for a property read of undefined or a spread of a
\* value that is not iterable.
TypeError(what) ==
    Thrown("TypeError", what, 0, <<"", <<>>, "">>, 0, NullBody)

\* TransformError with the branch for a sent request without a response
\* left out.
TransformErrorNoRequestBranch(error) ==
    IF error.hasResponse THEN ResponseError(error.response)
    ELSE Unwrapped(error)

\* TransformError wrapping every failure without a response.
TransformErrorWrapAll(error) ==
    IF error.hasResponse THEN ResponseError(error.response)
    ELSE NetworkError(error)

\* The error transformation of the error interceptor.
TransformError(error) ==
    IF error.hasResponse THEN ResponseError(error.response)
    ELSE IF error.hasRequest THEN NetworkError(error)
    ELSE Unwrapped(error)

---------------------------------------------------------------------------
(* The remote API *)

Ok == [kind |-> "ok", status |-> 200]
\* A 200 answer that takes latency ms to arrive.
Slow(latency) == [kind |-> "slow", status |-> 200, latency |-> latency]
Fail(status) == [kind |-> "response", status |-> status]
NetFail == [kind |-> "network", status |-> 0]

\* behaviour[u] = [pre, final]: the n-th request to u is answered pre[n]
\* while n <= Len(pre), and final afterwards.
Answer(u, n) ==
    IF n <= Len(behaviour[u].pre) THEN behaviour[u].pre[n]
    ELSE behaviour[u].final

Healthy == [pre |-> <<>>, final |-> Ok]

\* The body the remote API sends with an error status.
ErrorBody(status) ==
    IF status >= 500 THEN Body("string", <<"d", "o", "w", "n">>, "")
    ELSE IF status = 404
    THEN ErrorsBody(<<[message |-> "The specified resource does not exist.",
                       text |-> ""]>>)
    ELSE Body("object", <<>>, "denied")

ErrorResponse(status) ==
    [status |-> status, data |-> ErrorBody(status),
     headers |-> [link |-> NoLink, ctype |-> "text/html"]]

\* The timeout in the server's configuration when CANVAS_TIMEOUT is not set.
DefaultTimeout == 30000

\* The timeout the constructor of the client gives the axios instance; the
\* options it is passed carry no timeout.
AxiosTimeout(configured) == 30000

\* axios gives up on an answer that takes longer than its timeout.
TimedOut(ans) == ans.kind = "slow" /\ ans.latency > timeout

\* The answer is a 2xx response that axios waits for.
Arrives(ans) == ans.kind = "ok" \/ (ans.kind = "slow" /\ ~TimedOut(ans))

\* The rejection axios produces for an answer that is not a 2xx response.
Rejection(ans) ==
    IF ans.kind = "response"
    THEN AxiosError(TRUE, TRUE, ErrorResponse(ans.status),
                    "Request failed with status code")
    ELSE IF ans.kind = "slow"
    THEN AxiosError(FALSE, TRUE, NoResponse, "timeout exceeded")
    ELSE AxiosError(FALSE, TRUE, NoResponse, "socket hang up")

Serve(u) == [status |-> 200, data |-> pages[u].data, headers |-> pages[u].headers]

---------------------------------------------------------------------------
(* Frames *)

NewFrame(url, method) ==
    [url |-> url, method |-> method, retryCount |-> UndefinedCount,
     pc |-> "send", response |-> NoResponse, error |-> NoError,
     allData |-> <<>>, nextUrl |-> NoUrl, thrown |-> NoThrown]

Top(c) == stack[c][Len(stack[c])]

SetTop(c, f) == [stack EXCEPT ![c] = [@ EXCEPT ![Len(@)] = f]]

\* Call c has settled.
Done(c) == stack[c] = <<>> /\ outcome[c].kind # "pending"

Pending == [kind |-> "pending", data |-> NullBody, thrown |-> NoThrown]
Returned(data) == [kind |-> "ok", data |-> data, thrown |-> NoThrown]
Raised(thrown) == [kind |-> "error", data |-> NullBody, thrown |-> thrown]

\* The head of the while loop of the pagination drain, entered with the
\* frame's allData and nextUrl set: the frames of the call after it, `below`
\* being the frames under f.
LoopHead(below, f) ==
    IF f.nextUrl # NoUrl
    THEN below \o <<[f EXCEPT !.pc = "await"], NewFrame(f.nextUrl, "GET")>>
    ELSE below \o <<[f EXCEPT !.pc = "return",
                              !.response.data = Body("array", f.allData, "")]>>

Below(frames) == SubSeq(frames, 1, Len(frames) - 1)

---------------------------------------------------------------------------
(* Actions of the transport *)

\* The request leaves and the remote API answers it.
Request(c) ==
    /\ stack[c] # <<>>
    /\ Top(c).pc = "send"
    /\ LET f == Top(c)
           ans == Answer(f.url, attempts[f.url] + 1)
       IN  /\ attempts' = [attempts EXCEPT ![f.url] = @ + 1]
           /\ requests' = [requests EXCEPT ![c] =
                              Append(@, [method |-> f.method, url |-> f.url])]
           /\ stack' = SetTop(c,
                 IF Arrives(ans)
                 THEN [f EXCEPT !.pc = "fulfilled", !.response = Serve(f.url)]
                 ELSE [f EXCEPT !.pc = "rejected", !.error = Rejection(ans)])
    /\ UNCHANGED <<maxRetries, retryDelay, pages, behaviour, waits, outcome, roster,
                   tool, bulk,
                   canvasTimeout, timeout, health>>

\* The success handler of the response interceptor, up to its first await.
OnFulfilled(c) ==
    /\ stack[c] # <<>>
    /\ Top(c).pc = "fulfilled"
    /\ LET f == Top(c)
       IN  stack' = [stack EXCEPT ![c] =
              IF ShouldPaginate(f.response)
              THEN LoopHead(Below(stack[c]), [f EXCEPT
                       !.allData = f.response.data.items,
                       !.nextUrl = getNextPageUrl(f.response.headers.link)])
              ELSE SetTop(c, [f EXCEPT !.pc = "return"])[c]]
    /\ UNCHANGED <<maxRetries, retryDelay, pages, behaviour, attempts,
                   requests, waits, outcome, roster, tool, bulk,
                   canvasTimeout, timeout, health>>

\* The awaited follow-up GET settles and the drain loop goes on.
Resume(c) ==
    /\ Len(stack[c]) >= 2
    /\ Top(c).pc \in {"return", "throw"}
    /\ LET child == Top(c)
           rest == Below(stack[c])
           f == rest[Len(rest)]
           popped == [stack EXCEPT ![c] = rest]
           throw(t) == [popped EXCEPT ![c] =
                          [@ EXCEPT ![Len(@)] = [f EXCEPT !.pc = "throw", !.thrown = t]]]
       IN  /\ f.pc = "await"
           /\ stack' =
                IF child.pc = "throw" THEN throw(child.thrown)
                ELSE IF child.response.data.shape \notin {"array", "string"}
                THEN throw(TypeError("nextResponse.data is not iterable"))
                ELSE IF ~child.response.headers.link.present
                THEN throw(TypeError("Cannot read properties of undefined (reading 'split')"))
                ELSE [popped EXCEPT ![c] =
                        LoopHead(Below(rest), [f EXCEPT
                          !.allData = f.allData \o child.response.data.items,
                          !.nextUrl = getNextPageUrl(child.response.headers.link)])]
    /\ UNCHANGED <<maxRetries, retryDelay, pages, behaviour, attempts,
                   requests, waits, outcome, roster, tool, bulk,
                   canvasTimeout, timeout, health>>

\* OnRejected with one retry counter kept on the client and shared by all
\* the requests in flight.
OnRejectedSharedCounter(c) ==
    /\ stack[c] # <<>>
    /\ Top(c).pc = "rejected"
    /\ LET f == Top(c)
           count == OrZero(f.retryCount) + 1
       IN  IF shouldRetry(f.error) /\ OrZero(f.retryCount) < maxRetries
           THEN /\ waits' = Append(waits, BackoffDelay(count))
                /\ stack' = [d \in DOMAIN stack |->
                      IF d = c
                      THEN SetTop(c, [f EXCEPT !.retryCount = Count(count),
                                               !.pc = "send"])[c]
                      ELSE [i \in 1..Len(stack[d]) |->
                              [stack[d][i] EXCEPT !.retryCount = Count(count)]]]
           ELSE /\ waits' = waits
                /\ stack' = SetTop(c, [f EXCEPT !.pc = "throw",
                                                !.thrown = TransformError(f.error)])
    /\ UNCHANGED <<maxRetries, retryDelay, pages, behaviour, attempts,
                   requests, outcome, roster, tool, bulk,
                   canvasTimeout, timeout, health>>

\* The error handler of the response interceptor.
OnRejected(c) ==
    /\ stack[c] # <<>>
    /\ Top(c).pc = "rejected"
    /\ LET f == Top(c)
           count == OrZero(f.retryCount) + 1
       IN  IF RetryGuard(f.error, f.retryCount)
           THEN /\ waits' = Append(waits, BackoffDelay(count))
                /\ stack' = SetTop(c, [f EXCEPT !.retryCount = Count(count),
                                                !.pc = "send"])
           ELSE /\ waits' = waits
                /\ stack' = SetTop(c, [f EXCEPT !.pc = "throw",
                                                !.thrown = TransformError(f.error)])
    /\ UNCHANGED <<maxRetries, retryDelay, pages, behaviour, attempts,
                   requests, outcome, roster, tool, bulk,
                   canvasTimeout, timeout, health>>

\* The outermost call settles: the accessor returns response.data or the
\* rejection reaches its caller.
Complete(c) ==
    /\ Len(stack[c]) = 1
    /\ Top(c).pc \in {"return", "throw"}
    /\ outcome' = [outcome EXCEPT ![c] =
          IF Top(c).pc = "return" THEN Returned(Top(c).response.data)
          ELSE Raised(Top(c).thrown)]
    /\ stack' = [stack EXCEPT ![c] = <<>>]
    /\ UNCHANGED <<maxRetries, retryDelay, pages, behaviour, attempts,
                   requests, waits, roster, tool, bulk,
                   canvasTimeout, timeout, health>>

---------------------------------------------------------------------------
(* One logical GET of a collection: listCourses and the like *)

MaxFailures == 2

RetryDelays == {100, 1000}

Statuses == {400, 404, 429, 499, 500, 503}

FailKinds == {Fail(s) : s \in Statuses} \cup {NetFail}

Repeat(k, n) == [i \in 1..n |-> k]

\* Fail n times and then serve, or fail for ever.
Scripts ==
    {[pre |-> Repeat(k, n), final |-> Ok] : k \in FailKinds, n \in 1..MaxFailures}
    \cup {[pre |-> <<>>, final |-> k] : k \in FailKinds}

PageItems(u, n) == [i \in 1..n |-> 10 * u + i]

\* The link header Canvas sends with page u of P.
CanvasLink(u, P) ==
    Link(<<[url |-> u, rel |-> "current"]>>
         \o (IF u < P THEN <<[url |-> u + 1, rel |-> "next"]>> ELSE <<>>)
         \o <<[url |-> 1, rel |-> "first"], [url |-> P, rel |-> "last"]>>)

Deviations == {"object", "number", "html", "nolink"}

\* Page u of a P-page collection of n items a page; dev is how it departs
\* from a JSON array with a link header.
Page(u, P, n, dev) ==
    [data |-> IF dev = "object" THEN Body("object", <<>>, "")
              ELSE IF dev = "number" THEN Body("number", <<>>, "")
              ELSE Body("array", PageItems(u, n), ""),
     headers |-> [link |-> IF dev = "nolink" THEN NoLink ELSE CanvasLink(u, P),
                  ctype |-> IF dev = "html" THEN "text/html"
                            ELSE "application/json; charset=utf-8"]]

\* What the call-tool handler answers: content[0].text and isError.
ToolResult(isError, text, thrown) ==
    [isError |-> isError, text |-> text, thrown |-> thrown]

NoResult == ToolResult(FALSE, "", NoThrown)

\* No tool has been called.
IdleTool == [phase |-> "idle", name |-> "", supplied |-> {}, calls |-> 0,
             caught |-> FALSE, result |-> NoResult]

\* What a bulk accessor returns or throws.
BulkResult(kind, entries, thrown) ==
    [kind |-> kind, entries |-> entries, thrown |-> thrown]

\* What healthCheck returns: status, and user when hasUser.  A property of
\* user is <<>> when undefined and <<v>> when it has value v.
HealthResult(status, hasUser, id, name) ==
    [status |-> status, hasUser |-> hasUser, user |-> [id |-> id, name |-> name]]

\* healthCheck is not running.
IdleHealth == [phase |-> "idle", result |-> HealthResult("", FALSE, <<>>, <<>>)]

\* No bulk accessor is running.
IdleBulk == [accessor |-> "", phase |-> "idle", include_page_views |-> FALSE,
             entities |-> <<>>, index |-> 0, step |-> "",
             last_login |-> 0, total_page_views |-> 0,
             entries |-> <<>>,
             result |-> BulkResult("pending", <<>>, NoThrown)]

\* getCourseStudents is not running.
IdleRoster == [phase |-> "idle", include_activity |-> FALSE,
               entries |-> <<>>, result |-> [kind |-> "pending",
                                             entries |-> <<>>,
                                             thrown |-> NoThrown]]

Init ==
    /\ maxRetries \in 0..MaxRetriesBound
    /\ retryDelay \in RetryDelays
    /\ \E P \in 1..MaxPages, n \in 1..MaxItems :
         /\ \E odd \in 0..P, dev \in Deviations :
              /\ (odd = 0 => dev = "object")
              /\ pages = [u \in 1..P |->
                            Page(u, P, n, IF u = odd THEN dev ELSE "none")]
         /\ \E bad \in 0..P, s \in Scripts \cup {Healthy} :
              /\ (bad = 0 <=> s = Healthy)
              /\ behaviour = [u \in 1..P |-> IF u = bad THEN s ELSE Healthy]
         /\ attempts = [u \in 1..P |-> 0]
    /\ stack = [c \in {0} |-> <<NewFrame(1, "GET")>>]
    /\ requests = [c \in {0} |-> <<>>]
    /\ waits = <<>>
    /\ outcome = [c \in {0} |-> Pending]
    /\ roster = IdleRoster
    /\ tool = IdleTool
    /\ bulk = IdleBulk
    /\ canvasTimeout = DefaultTimeout
    /\ timeout = AxiosTimeout(canvasTimeout)
    /\ health = IdleHealth

Next ==
    \/ \E c \in DOMAIN stack : Request(c)
    \/ \E c \in DOMAIN stack : OnFulfilled(c)
    \/ \E c \in DOMAIN stack : Resume(c)
    \/ \E c \in DOMAIN stack : OnRejected(c)
    \/ \E c \in DOMAIN stack : Complete(c)

Spec == Init /\ [][Next]_vars

---------------------------------------------------------------------------
(* getCourseStudents: the roster request is call 0, the page_views request
   of the i-th student of the roster is call i *)

UsersUrl == 1                    \* /courses/${args.course_id}/users?...

PageViewsUrl(student) == 2 + student   \* /users/${student.id}/page_views?per_page=1

NoActivity == 0                  \* null

\* activityResponse.data[0]?.created_at || null, a page view being
\* identified by its created_at.
LastActivity(data) ==
    IF data.shape = "array" /\ Len(data.items) > 0
    THEN data.items[1]
    ELSE NoActivity

Unsettled(student) ==
    [student |-> student, settled |-> FALSE, last_activity |-> NoActivity,
     threw |-> FALSE, thrown |-> NoThrown]

\* The callback of response.data.map without its try/catch.
ActivityEntryNoCatch(student, o) ==
    [student |-> student, settled |-> TRUE,
     last_activity |-> IF o.kind = "ok" THEN LastActivity(o.data) ELSE NoActivity,
     threw |-> o.kind # "ok", thrown |-> o.thrown]

\* The callback of response.data.map after its await: what the promise of
\* one student settles to, o being the outcome of the page_views call.
ActivityEntry(student, o) ==
    [student |-> student, settled |-> TRUE,
     last_activity |-> IF o.kind = "ok" THEN LastActivity(o.data) ELSE NoActivity,
     threw |-> FALSE, thrown |-> NoThrown]

RosterResult(kind, entries, thrown) ==
    [kind |-> kind, entries |-> entries, thrown |-> thrown]

\* The roster request has settled: getCourseStudents goes on after its
\* first await, up to Promise.all.
RosterUsersSettled ==
    /\ roster.phase = "users"
    /\ Done(0)
    /\ LET o == outcome[0]
           students == o.data.items
       IN  IF o.kind # "ok"
           THEN /\ roster' = [roster EXCEPT !.phase = "done",
                                 !.result = RosterResult("error", <<>>, o.thrown)]
                /\ stack' = stack
           ELSE IF ~roster.include_activity
           THEN /\ roster' = [roster EXCEPT !.phase = "done",
                                 !.result = RosterResult("ok",
                                     [i \in 1..Len(students) |-> Unsettled(students[i])],
                                     NoThrown)]
                /\ stack' = stack
           ELSE IF ~IsArray(o.data)
           THEN /\ roster' = [roster EXCEPT !.phase = "done",
                                 !.result = RosterResult("error", <<>>,
                                     TypeError("response.data.map is not a function"))]
                /\ stack' = stack
           ELSE /\ roster' = [roster EXCEPT !.phase = "gather",
                                 !.entries = [i \in 1..Len(students) |->
                                                 Unsettled(students[i])]]
                /\ stack' = [c \in DOMAIN stack |->
                               IF c \in 1..Len(students)
                               THEN <<NewFrame(PageViewsUrl(students[c]), "GET")>>
                               ELSE stack[c]]
    /\ UNCHANGED <<maxRetries, retryDelay, pages, behaviour, attempts,
                   requests, waits, outcome, tool, bulk,
                   canvasTimeout, timeout, health>>

\* The page_views call of the i-th student has settled: the rest of the
\* map callback runs.
SubSettled(i) ==
    /\ roster.phase = "gather"
    /\ i \in 1..Len(roster.entries)
    /\ ~roster.entries[i].settled
    /\ Done(i)
    /\ roster' = [roster EXCEPT !.entries[i] =
                     ActivityEntry(roster.entries[i].student, outcome[i])]
    /\ UNCHANGED <<maxRetries, retryDelay, pages, behaviour, attempts, stack,
                   requests, waits, outcome, tool, bulk,
                   canvasTimeout, timeout, health>>

\* RosterGather fulfilling as soon as one promise is fulfilled.
RosterGatherFirstSettled ==
    /\ roster.phase = "gather"
    /\ \/ \E i \in 1..Len(roster.entries) : roster.entries[i].settled
       \/ roster.entries = <<>>
    /\ roster' = [roster EXCEPT !.phase = "done",
                    !.result = RosterResult("ok", roster.entries, NoThrown)]
    /\ UNCHANGED <<maxRetries, retryDelay, pages, behaviour, attempts, stack,
                   requests, waits, outcome, tool, bulk,
                   canvasTimeout, timeout, health>>

\* Promise.all settles: it rejects as soon as one promise rejected and
\* fulfils with the values in input order once all are fulfilled.
RosterGather ==
    /\ roster.phase = "gather"
    /\ LET rejected == {i \in 1..Len(roster.entries) : roster.entries[i].threw}
       IN  IF rejected # {}
           THEN \E i \in rejected :
                  roster' = [roster EXCEPT !.phase = "done",
                               !.result = RosterResult("error", <<>>,
                                              roster.entries[i].thrown)]
           ELSE /\ \A i \in 1..Len(roster.entries) : roster.entries[i].settled
                /\ roster' = [roster EXCEPT !.phase = "done",
                                !.result = RosterResult("ok", roster.entries, NoThrown)]
    /\ UNCHANGED <<maxRetries, retryDelay, pages, behaviour, attempts, stack,
                   requests, waits, outcome, tool, bulk,
                   canvasTimeout, timeout, health>>

\* What the page_views endpoint of a student does.
SubKinds == {"view", "empty", "503", "network"}

SubPage(student, kind) ==
    [data |-> Body("array", IF kind = "view" THEN <<100 + student>> ELSE <<>>, ""),
     headers |-> [link |-> Link(<<[url |-> PageViewsUrl(student), rel |-> "current"]>>),
                  ctype |-> "application/json; charset=utf-8"]]

SubBehaviour(kind) ==
    IF kind = "503" THEN [pre |-> <<>>, final |-> Fail(503)]
    ELSE IF kind = "network" THEN [pre |-> <<>>, final |-> NetFail]
    ELSE Healthy

\* The roster of n students, on one page or split over two.
UsersPage(u, n, split) ==
    [data |-> Body("array",
                   IF ~split THEN [i \in 1..n |-> i]
                   ELSE IF u = 1 THEN <<1>>
                   ELSE [i \in 1..(n - 1) |-> i + 1], ""),
     headers |-> [link |-> CanvasLink(u, IF split THEN 2 ELSE 1),
                  ctype |-> "application/json; charset=utf-8"]]

InitRoster ==
    /\ maxRetries = 3
    /\ retryDelay = 1000
    /\ \E n \in 0..MaxStudents, split \in BOOLEAN,
          kinds \in [1..MaxStudents -> SubKinds],
          users \in {Healthy, [pre |-> <<>>, final |-> Fail(500)]} :
         LET urls == {UsersUrl} \cup (IF split THEN {2} ELSE {})
                     \cup {PageViewsUrl(st) : st \in 1..n}
         IN  /\ split => n >= 2
             /\ \A st \in (n + 1)..MaxStudents : kinds[st] = "view"
             /\ pages = [u \in urls |->
                           IF u <= 2 THEN UsersPage(u, n, split)
                           ELSE SubPage(u - 2, kinds[u - 2])]
             /\ behaviour = [u \in urls |->
                           IF u = UsersUrl THEN users
                           ELSE IF u = 2 THEN Healthy
                           ELSE SubBehaviour(kinds[u - 2])]
             /\ attempts = [u \in urls |-> 0]
             /\ stack = [c \in 0..n |->
                           IF c = 0 THEN <<NewFrame(UsersUrl, "GET")>> ELSE <<>>]
             /\ outcome = [c \in 0..n |-> Pending]
             /\ requests = [c \in 0..n |-> <<>>]
    /\ waits = <<>>
    /\ \E ia \in BOOLEAN :
         roster = [IdleRoster EXCEPT !.phase = "users", !.include_activity = ia]
    /\ tool = IdleTool
    /\ bulk = IdleBulk
    /\ canvasTimeout = DefaultTimeout
    /\ timeout = AxiosTimeout(canvasTimeout)
    /\ health = IdleHealth

NextRoster ==
    \/ \E c \in DOMAIN stack : Request(c)
    \/ \E c \in DOMAIN stack : OnFulfilled(c)
    \/ \E c \in DOMAIN stack : Resume(c)
    \/ \E c \in DOMAIN stack : OnRejected(c)
    \/ \E c \in DOMAIN stack : Complete(c)
    \/ RosterUsersSettled
    \/ \E i \in DOMAIN stack : SubSettled(i)
    \/ RosterGather

SpecRoster == InitRoster /\ [][NextRoster]_vars

---------------------------------------------------------------------------
(* The error transformation on the bodies an error response can carry *)

Digits == <<"0", "1", "2", "3", "4", "5", "6", "7", "8", "9">>

\* A text of n characters, the i-th being the last digit of i.
Text(n) == [i \in 1..n |-> Digits[(i % 10) + 1]]

TextLengths == {0, 1, 199, 200, 201, 500}

\* An element of an errors array: an object with a message, or a string.
ErrorElements == {[message |-> "not found", text |-> ""],
                  [message |-> "", text |-> "invalid"]}

ErrorLists ==
    {<<>>} \cup {<<e>> : e \in ErrorElements}
    \cup {<<e1, e2>> : e1 \in ErrorElements, e2 \in ErrorElements}

\* { message: "" }
EmptyMessage == [Body("object", <<>>, "") EXCEPT !.hasMessage = TRUE]

\* { errors: "..." }: an errors property that is not an array.
ErrorsNoArray ==
    [Body("object", <<>>, "") EXCEPT
        !.errors = [present |-> TRUE, isArray |-> FALSE, list |-> <<>>]]

DetailBodies ==
    {Body("string", Text(n), "") : n \in TextLengths}
    \cup {Body("object", <<>>, "denied"), Body("object", <<>>, ""),
          EmptyMessage, ErrorsNoArray, Body("array", Text(2), ""),
          NullBody, Body("number", <<>>, ""), Body("undefined", <<>>, "")}
    \cup {ErrorsBody(list) : list \in ErrorLists}
    \cup {[Body("object", <<>>, "denied") EXCEPT !.errors = Errors(list)] :
             list \in ErrorLists}
    \cup {[EmptyMessage EXCEPT !.errors = Errors(list)] : list \in ErrorLists}

\* The failures of a GET answered with an error status.
ResponseFailures ==
    {AxiosError(TRUE, TRUE, [ErrorResponse(st) EXCEPT !.data = body],
                "Request failed with status code") :
        st \in Statuses, body \in DetailBodies}

\* The failures without a response: the request was sent and not answered,
\* or the failure arose before anything was sent, as an AxiosError (with or
\* without config) or as another error value.
OtherFailures ==
    {AxiosError(FALSE, TRUE, NoResponse, "socket hang up")}
    \cup {[AxiosError(FALSE, FALSE, NoResponse, "canceled") EXCEPT
              !.hasConfig = hasConfig] : hasConfig \in BOOLEAN}
    \cup {[AxiosError(FALSE, FALSE, NoResponse, "Invalid URL") EXCEPT
              !.name = "TypeError", !.hasConfig = FALSE]}

\* The error interceptor is entered with the failure of a GET.
InitDetail ==
    /\ maxRetries \in 0..MaxRetriesBound
    /\ retryDelay \in RetryDelays
    /\ \E error \in ResponseFailures \cup OtherFailures :
         /\ pages = [u \in {1} |-> Page(1, 1, 1, "none")]
         /\ behaviour = [u \in {1} |-> [pre |-> <<>>, final |->
                            IF error.hasResponse THEN Fail(error.response.status)
                            ELSE NetFail]]
         /\ stack = [c \in {0} |->
               <<[NewFrame(1, "GET") EXCEPT !.pc = "rejected",
                                            !.error = error]>>]
         /\ attempts = [u \in {1} |-> IF error.hasRequest THEN 1 ELSE 0]
         /\ requests = [c \in {0} |->
               IF error.hasRequest THEN <<[method |-> "GET", url |-> 1]>>
               ELSE <<>>]
    /\ waits = <<>>
    /\ outcome = [c \in {0} |-> Pending]
    /\ roster = IdleRoster
    /\ tool = IdleTool
    /\ bulk = IdleBulk
    /\ canvasTimeout = DefaultTimeout
    /\ timeout = AxiosTimeout(canvasTimeout)
    /\ health = IdleHealth

NextDetail ==
    \/ \E c \in DOMAIN stack : OnRejected(c)
    \/ \E c \in DOMAIN stack : Complete(c)

SpecDetail == InitDetail /\ [][NextDetail]_vars

---------------------------------------------------------------------------
(* submitGrade: one PUT, answered with the submission *)

SubmissionUrl == 1     \* /courses/${course_id}/assignments/${assignment_id}/submissions/${user_id}

\* The CanvasSubmission the remote API answers the PUT with.
SubmissionPage ==
    [data |-> Body("object", <<>>, ""),
     headers |-> [link |-> NoLink, ctype |-> "application/json; charset=utf-8"]]

InitWrite ==
    /\ maxRetries \in 0..MaxRetriesBound
    /\ retryDelay \in RetryDelays
    /\ pages = [u \in {SubmissionUrl} |-> SubmissionPage]
    /\ \E s \in Scripts \cup {Healthy} : behaviour = [u \in {SubmissionUrl} |-> s]
    /\ attempts = [u \in {SubmissionUrl} |-> 0]
    /\ stack = [c \in {0} |-> <<NewFrame(SubmissionUrl, "PUT")>>]
    /\ requests = [c \in {0} |-> <<>>]
    /\ waits = <<>>
    /\ outcome = [c \in {0} |-> Pending]
    /\ roster = IdleRoster
    /\ tool = IdleTool
    /\ bulk = IdleBulk
    /\ canvasTimeout = DefaultTimeout
    /\ timeout = AxiosTimeout(canvasTimeout)
    /\ health = IdleHealth

NextWrite ==
    \/ \E c \in DOMAIN stack : Request(c)
    \/ \E c \in DOMAIN stack : OnFulfilled(c)
    \/ \E c \in DOMAIN stack : OnRejected(c)
    \/ \E c \in DOMAIN stack : Complete(c)

SpecWrite == InitWrite /\ [][NextWrite]_vars

---------------------------------------------------------------------------
(* Two logical calls in flight on the same client: call 0 is a GET of a
   collection of one or two pages (URLs 1 and 2), call 1 a GET of URL 3 *)

OtherUrl == 3

InitTwo ==
    /\ maxRetries \in 0..MaxRetriesBound
    /\ retryDelay = 1000
    /\ \E P \in 1..2, s0 \in Scripts \cup {Healthy}, s1 \in Scripts \cup {Healthy} :
         LET urls == (1..P) \cup {OtherUrl}
         IN  /\ pages = [u \in urls |->
                           IF u = OtherUrl THEN Page(u, u, 1, "none")
                           ELSE Page(u, P, 1, "none")]
             /\ behaviour = [u \in urls |->
                           IF u = 1 THEN s0
                           ELSE IF u = OtherUrl THEN s1 ELSE Healthy]
             /\ attempts = [u \in urls |-> 0]
    /\ stack = [c \in {0, 1} |->
                  <<NewFrame(IF c = 0 THEN 1 ELSE OtherUrl, "GET")>>]
    /\ requests = [c \in {0, 1} |-> <<>>]
    /\ waits = <<>>
    /\ outcome = [c \in {0, 1} |-> Pending]
    /\ roster = IdleRoster
    /\ tool = IdleTool
    /\ bulk = IdleBulk
    /\ canvasTimeout = DefaultTimeout
    /\ timeout = AxiosTimeout(canvasTimeout)
    /\ health = IdleHealth

NextTwo ==
    \/ \E c \in DOMAIN stack : Request(c)
    \/ \E c \in DOMAIN stack : OnFulfilled(c)
    \/ \E c \in DOMAIN stack : Resume(c)
    \/ \E c \in DOMAIN stack : OnRejected(c)
    \/ \E c \in DOMAIN stack : Complete(c)

SpecTwo == InitTwo /\ [][NextTwo]_vars

---------------------------------------------------------------------------
(* The MCP server (src/index.ts): the tool catalog and the call-tool handler *)

\* The tools the list-tools request returns, each with the fields its
\* inputSchema declares as required ("user.name": name, required in user).
TOOLS == {
    [name |-> "canvas_health_check",
     required |-> {}],
    [name |-> "canvas_list_courses",
     required |-> {}],
    [name |-> "canvas_get_course",
     required |-> {"course_id"}],
    [name |-> "canvas_create_course",
     required |-> {"account_id", "name"}],
    [name |-> "canvas_update_course",
     required |-> {"course_id"}],
    [name |-> "canvas_list_assignments",
     required |-> {"course_id"}],
    [name |-> "canvas_get_assignment",
     required |-> {"course_id", "assignment_id"}],
    [name |-> "canvas_create_assignment",
     required |-> {"course_id", "name"}],
    [name |-> "canvas_update_assignment",
     required |-> {"course_id", "assignment_id"}],
    [name |-> "canvas_list_assignment_groups",
     required |-> {"course_id"}],
    [name |-> "canvas_get_submission",
     required |-> {"course_id", "assignment_id"}],
    [name |-> "canvas_submit_assignment",
     required |-> {"course_id", "assignment_id", "submission_type"}],
    [name |-> "canvas_submit_grade",
     required |-> {"course_id", "assignment_id", "user_id", "grade"}],
    [name |-> "canvas_list_files",
     required |-> {"course_id"}],
    [name |-> "canvas_get_file",
     required |-> {"file_id"}],
    [name |-> "canvas_list_folders",
     required |-> {"course_id"}],
    [name |-> "canvas_list_pages",
     required |-> {"course_id"}],
    [name |-> "canvas_get_page",
     required |-> {"course_id", "page_url"}],
    [name |-> "canvas_list_calendar_events",
     required |-> {}],
    [name |-> "canvas_get_upcoming_assignments",
     required |-> {}],
    [name |-> "canvas_get_dashboard",
     required |-> {}],
    [name |-> "canvas_get_dashboard_cards",
     required |-> {}],
    [name |-> "canvas_get_course_grades",
     required |-> {"course_id"}],
    [name |-> "canvas_get_user_grades",
     required |-> {}],
    [name |-> "canvas_get_user_profile",
     required |-> {}],
    [name |-> "canvas_update_user_profile",
     required |-> {}],
    [name |-> "canvas_enroll_user",
     required |-> {"course_id", "user_id"}],
    [name |-> "canvas_list_modules",
     required |-> {"course_id"}],
    [name |-> "canvas_get_module",
     required |-> {"course_id", "module_id"}],
    [name |-> "canvas_list_module_items",
     required |-> {"course_id", "module_id"}],
    [name |-> "canvas_get_module_item",
     required |-> {"course_id", "module_id", "item_id"}],
    [name |-> "canvas_mark_module_item_complete",
     required |-> {"course_id", "module_id", "item_id"}],
    [name |-> "canvas_list_discussion_topics",
     required |-> {"course_id"}],
    [name |-> "canvas_get_discussion_topic",
     required |-> {"course_id", "topic_id"}],
    [name |-> "canvas_post_to_discussion",
     required |-> {"course_id", "topic_id", "message"}],
    [name |-> "canvas_list_announcements",
     required |-> {"course_id"}],
    [name |-> "canvas_list_quizzes",
     required |-> {"course_id"}],
    [name |-> "canvas_get_quiz",
     required |-> {"course_id", "quiz_id"}],
    [name |-> "canvas_create_quiz",
     required |-> {"course_id", "title"}],
    [name |-> "canvas_start_quiz_attempt",
     required |-> {"course_id", "quiz_id"}],
    [name |-> "canvas_list_rubrics",
     required |-> {"course_id"}],
    [name |-> "canvas_get_rubric",
     required |-> {"course_id", "rubric_id"}],
    [name |-> "canvas_list_conversations",
     required |-> {}],
    [name |-> "canvas_get_conversation",
     required |-> {"conversation_id"}],
    [name |-> "canvas_create_conversation",
     required |-> {"recipients", "body"}],
    [name |-> "canvas_list_notifications",
     required |-> {}],
    [name |-> "canvas_get_syllabus",
     required |-> {"course_id"}],
    [name |-> "canvas_get_account",
     required |-> {"account_id"}],
    [name |-> "canvas_list_account_courses",
     required |-> {"account_id"}],
    [name |-> "canvas_list_account_users",
     required |-> {"account_id"}],
    [name |-> "canvas_create_user",
     required |-> {"account_id", "user", "pseudonym", "user.name", "pseudonym.unique_id"}],
    [name |-> "canvas_list_sub_accounts",
     required |-> {"account_id"}],
    [name |-> "canvas_get_account_reports",
     required |-> {"account_id"}],
    [name |-> "canvas_create_account_report",
     required |-> {"account_id", "report"}],
    [name |-> "canvas_get_teacher_courses",
     required |-> {}],
    [name |-> "canvas_get_grading_queue",
     required |-> {}],
    [name |-> "canvas_get_course_students",
     required |-> {"course_id"}],
    [name |-> "canvas_get_course_assignments",
     required |-> {"course_id"}],
    [name |-> "canvas_get_upcoming_events",
     required |-> {}],
    [name |-> "canvas_get_student_performance",
     required |-> {"course_id"}],
    [name |-> "canvas_get_course_analytics",
     required |-> {"course_id"}],
    [name |-> "canvas_get_assignment_analytics",
     required |-> {"course_id"}],
    [name |-> "canvas_get_missing_submissions",
     required |-> {}],
    [name |-> "canvas_get_course_statistics",
     required |-> {"course_id"}],
    [name |-> "canvas_get_student_details",
     required |-> {"course_id", "student_id"}],
    [name |-> "canvas_get_student_activity",
     required |-> {"course_id"}],
    [name |-> "canvas_get_course_details",
     required |-> {"course_id"}],
    [name |-> "canvas_get_course_discussions",
     required |-> {"course_id"}],
    [name |-> "canvas_get_teacher_activity",
     required |-> {}],
    [name |-> "canvas_get_gradebook_data",
     required |-> {"course_id"}],
    [name |-> "canvas_get_module_progress",
     required |-> {"course_id"}],
    [name |-> "canvas_search_course_content",
     required |-> {"course_id", "search_term"}],
    [name |-> "canvas_get_user_enrollments",
     required |-> {}] }

\* The case labels of the switch on the tool name, each with the arguments
\* its case tests before it calls the client, and the accessor it calls.
Cases == {
    [name |-> "canvas_health_check",
     validated |-> {}, accessor |-> "healthCheck"],
    [name |-> "canvas_list_courses",
     validated |-> {}, accessor |-> "listCourses"],
    [name |-> "canvas_get_course",
     validated |-> {"course_id"}, accessor |-> "getCourse"],
    [name |-> "canvas_create_course",
     validated |-> {"account_id", "name"}, accessor |-> "createCourse"],
    [name |-> "canvas_update_course",
     validated |-> {"course_id"}, accessor |-> "updateCourse"],
    [name |-> "canvas_list_assignments",
     validated |-> {"course_id"}, accessor |-> "listAssignments"],
    [name |-> "canvas_get_assignment",
     validated |-> {"course_id", "assignment_id"}, accessor |-> "getAssignment"],
    [name |-> "canvas_create_assignment",
     validated |-> {"course_id", "name"}, accessor |-> "createAssignment"],
    [name |-> "canvas_update_assignment",
     validated |-> {"course_id", "assignment_id"}, accessor |-> "updateAssignment"],
    [name |-> "canvas_list_assignment_groups",
     validated |-> {"course_id"}, accessor |-> "listAssignmentGroups"],
    [name |-> "canvas_get_submission",
     validated |-> {"course_id", "assignment_id"}, accessor |-> "getSubmission"],
    [name |-> "canvas_submit_assignment",
     validated |-> {"course_id", "assignment_id", "submission_type"}, accessor |-> "submitAssignment"],
    [name |-> "canvas_submit_grade",
     validated |-> {"course_id", "assignment_id", "user_id", "grade"}, accessor |-> "submitGrade"],
    [name |-> "canvas_list_files",
     validated |-> {"course_id"}, accessor |-> "listFiles"],
    [name |-> "canvas_get_file",
     validated |-> {"file_id"}, accessor |-> "getFile"],
    [name |-> "canvas_list_folders",
     validated |-> {"course_id"}, accessor |-> "listFolders"],
    [name |-> "canvas_list_pages",
     validated |-> {"course_id"}, accessor |-> "listPages"],
    [name |-> "canvas_get_page",
     validated |-> {"course_id", "page_url"}, accessor |-> "getPage"],
    [name |-> "canvas_list_calendar_events",
     validated |-> {}, accessor |-> "listCalendarEvents"],
    [name |-> "canvas_get_upcoming_assignments",
     validated |-> {}, accessor |-> "getUpcomingAssignments"],
    [name |-> "canvas_get_dashboard",
     validated |-> {}, accessor |-> "getDashboard"],
    [name |-> "canvas_get_dashboard_cards",
     validated |-> {}, accessor |-> "getDashboardCards"],
    [name |-> "canvas_get_user_profile",
     validated |-> {}, accessor |-> "getUserProfile"],
    [name |-> "canvas_update_user_profile",
     validated |-> {}, accessor |-> "updateUserProfile"],
    [name |-> "canvas_enroll_user",
     validated |-> {"course_id", "user_id"}, accessor |-> "enrollUser"],
    [name |-> "canvas_get_course_grades",
     validated |-> {"course_id"}, accessor |-> "getCourseGrades"],
    [name |-> "canvas_get_user_grades",
     validated |-> {}, accessor |-> "getUserGrades"],
    [name |-> "canvas_get_account",
     validated |-> {"account_id"}, accessor |-> "getAccount"],
    [name |-> "canvas_list_account_courses",
     validated |-> {"account_id"}, accessor |-> "listAccountCourses"],
    [name |-> "canvas_list_account_users",
     validated |-> {"account_id"}, accessor |-> "listAccountUsers"],
    [name |-> "canvas_create_user",
     validated |-> {"account_id", "user", "pseudonym"}, accessor |-> "createUser"],
    [name |-> "canvas_list_sub_accounts",
     validated |-> {"account_id"}, accessor |-> "listSubAccounts"],
    [name |-> "canvas_get_account_reports",
     validated |-> {"account_id"}, accessor |-> "getAccountReports"],
    [name |-> "canvas_create_account_report",
     validated |-> {"account_id", "report"}, accessor |-> "createAccountReport"],
    [name |-> "canvas_get_teacher_courses",
     validated |-> {}, accessor |-> "getTeacherCourses"],
    [name |-> "canvas_get_grading_queue",
     validated |-> {}, accessor |-> "getGradingQueue"],
    [name |-> "canvas_get_course_students",
     validated |-> {"course_id"}, accessor |-> "getCourseStudents"],
    [name |-> "canvas_get_course_assignments",
     validated |-> {"course_id"}, accessor |-> "getCourseAssignments"],
    [name |-> "canvas_get_upcoming_events",
     validated |-> {}, accessor |-> "getUpcomingEvents"],
    [name |-> "canvas_get_student_performance",
     validated |-> {"course_id"}, accessor |-> "getStudentPerformance"],
    [name |-> "canvas_get_course_analytics",
     validated |-> {"course_id"}, accessor |-> "getCourseAnalytics"],
    [name |-> "canvas_get_assignment_analytics",
     validated |-> {"course_id"}, accessor |-> "getAssignmentAnalytics"],
    [name |-> "canvas_get_missing_submissions",
     validated |-> {}, accessor |-> "getMissingSubmissions"],
    [name |-> "canvas_get_course_statistics",
     validated |-> {"course_id"}, accessor |-> "getCourseStatistics"],
    [name |-> "canvas_get_student_details",
     validated |-> {"course_id", "student_id"}, accessor |-> "getStudentDetails"],
    [name |-> "canvas_get_student_activity",
     validated |-> {"course_id"}, accessor |-> "getStudentActivity"],
    [name |-> "canvas_get_course_details",
     validated |-> {"course_id"}, accessor |-> "getCourseDetails"],
    [name |-> "canvas_get_course_discussions",
     validated |-> {"course_id"}, accessor |-> "getCourseDiscussions"],
    [name |-> "canvas_get_teacher_activity",
     validated |-> {}, accessor |-> "getTeacherActivity"],
    [name |-> "canvas_get_gradebook_data",
     validated |-> {"course_id"}, accessor |-> "getGradebookData"],
    [name |-> "canvas_get_module_progress",
     validated |-> {"course_id"}, accessor |-> "getModuleProgress"],
    [name |-> "canvas_search_course_content",
     validated |-> {"course_id", "search_term"}, accessor |-> "searchCourseContent"],
    [name |-> "canvas_get_user_enrollments",
     validated |-> {}, accessor |-> "getUserEnrollments"] }

\* CanvasClient: the this.client.<method>(...) call sites an accessor can
\* reach, those of the accessors it calls included.  caught: the call is
\* made inside a try block of the accessor, so its failure is not rethrown.
CallSites == [
    healthCheck |->
        {[line |-> 615, method |-> "GET", caught |-> TRUE]},
    listCourses |->
        {[line |-> 250, method |-> "GET", caught |-> FALSE]},
    getCourse |->
        {[line |-> 255, method |-> "GET", caught |-> FALSE]},
    createCourse |->
        {[line |-> 265, method |-> "POST", caught |-> FALSE]},
    updateCourse |->
        {[line |-> 273, method |-> "PUT", caught |-> FALSE]},
    listAssignments |->
        {[line |-> 295, method |-> "GET", caught |-> FALSE]},
    getAssignment |->
        {[line |-> 308, method |-> "GET", caught |-> FALSE]},
    createAssignment |->
        {[line |-> 314, method |-> "POST", caught |-> FALSE]},
    updateAssignment |->
        {[line |-> 322, method |-> "PUT", caught |-> FALSE]},
    listAssignmentGroups |->
        {[line |-> 337, method |-> "GET", caught |-> FALSE]},
    getSubmission |->
        {[line |-> 370, method |-> "GET", caught |-> FALSE]},
    submitAssignment |->
        {[line |-> 405, method |-> "POST", caught |-> FALSE]},
    submitGrade |->
        {[line |-> 383, method |-> "PUT", caught |-> FALSE]},
    listFiles |->
        {[line |-> 420, method |-> "GET", caught |-> FALSE]},
    getFile |->
        {[line |-> 425, method |-> "GET", caught |-> FALSE]},
    listFolders |->
        {[line |-> 450, method |-> "GET", caught |-> FALSE]},
    listPages |->
        {[line |-> 458, method |-> "GET", caught |-> FALSE]},
    getPage |->
        {[line |-> 463, method |-> "GET", caught |-> FALSE]},
    listCalendarEvents |->
        {[line |-> 479, method |-> "GET", caught |-> FALSE]},
    getUpcomingAssignments |->
        {[line |-> 484, method |-> "GET", caught |-> FALSE]},
    getDashboard |->
        {[line |-> 507, method |-> "GET", caught |-> FALSE]},
    getDashboardCards |->
        {[line |-> 512, method |-> "GET", caught |-> FALSE]},
    getUserProfile |->
        {[line |-> 615, method |-> "GET", caught |-> FALSE]},
    updateUserProfile |->
        {[line |-> 620, method |-> "PUT", caught |-> FALSE]},
    enrollUser |->
        {[line |-> 580, method |-> "POST", caught |-> FALSE]},
    getCourseGrades |->
        {[line |-> 598, method |-> "GET", caught |-> FALSE]},
    getUserGrades |->
        {[line |-> 607, method |-> "GET", caught |-> FALSE]},
    getAccount |->
        {[line |-> 784, method |-> "GET", caught |-> FALSE]},
    listAccountCourses |->
        {[line |-> 790, method |-> "GET", caught |-> FALSE]},
    listAccountUsers |->
        {[line |-> 796, method |-> "GET", caught |-> FALSE]},
    createUser |->
        {[line |-> 802, method |-> "POST", caught |-> FALSE]},
    listSubAccounts |->
        {[line |-> 807, method |-> "GET", caught |-> FALSE]},
    getAccountReports |->
        {[line |-> 815, method |-> "GET", caught |-> FALSE]},
    createAccountReport |->
        {[line |-> 821, method |-> "POST", caught |-> FALSE]},
    getTeacherCourses |->
        {[line |-> 860, method |-> "GET", caught |-> FALSE]},
    getGradingQueue |->
        {[line |-> 874, method |-> "GET", caught |-> FALSE],
         [line |-> 879, method |-> "GET", caught |-> FALSE],
         [line |-> 903, method |-> "GET", caught |-> FALSE]},
    getCourseStudents |->
        {[line |-> 945, method |-> "GET", caught |-> FALSE],
         [line |-> 952, method |-> "GET", caught |-> TRUE]},
    getCourseAssignments |->
        {[line |-> 992, method |-> "GET", caught |-> FALSE]},
    getUpcomingEvents |->
        {[line |-> 1039, method |-> "GET", caught |-> FALSE],
         [line |-> 1070, method |-> "GET", caught |-> FALSE]},
    getStudentPerformance |->
        {[line |-> 1103, method |-> "GET", caught |-> FALSE],
         [line |-> 1117, method |-> "GET", caught |-> TRUE],
         [line |-> 1135, method |-> "GET", caught |-> TRUE]},
    getCourseAnalytics |->
        {[line |-> 1183, method |-> "GET", caught |-> FALSE],
         [line |-> 1190, method |-> "GET", caught |-> FALSE],
         [line |-> 1223, method |-> "GET", caught |-> TRUE],
         [line |-> 1227, method |-> "GET", caught |-> TRUE]},
    getAssignmentAnalytics |->
        {[line |-> 308, method |-> "GET", caught |-> FALSE],
         [line |-> 1262, method |-> "GET", caught |-> FALSE],
         [line |-> 1270, method |-> "GET", caught |-> FALSE],
         [line |-> 1275, method |-> "GET", caught |-> TRUE]},
    getMissingSubmissions |->
        {[line |-> 860, method |-> "GET", caught |-> FALSE],
         [line |-> 860, method |-> "GET", caught |-> TRUE],
         [line |-> 1350, method |-> "GET", caught |-> FALSE],
         [line |-> 1350, method |-> "GET", caught |-> TRUE]},
    getCourseStatistics |->
        {[line |-> 1183, method |-> "GET", caught |-> FALSE],
         [line |-> 1190, method |-> "GET", caught |-> FALSE],
         [line |-> 1223, method |-> "GET", caught |-> TRUE],
         [line |-> 1227, method |-> "GET", caught |-> TRUE],
         [line |-> 1404, method |-> "GET", caught |-> FALSE],
         [line |-> 1428, method |-> "GET", caught |-> FALSE],
         [line |-> 1437, method |-> "GET", caught |-> TRUE]},
    getStudentDetails |->
        {[line |-> 1478, method |-> "GET", caught |-> FALSE],
         [line |-> 1489, method |-> "GET", caught |-> TRUE],
         [line |-> 1500, method |-> "GET", caught |-> TRUE],
         [line |-> 1511, method |-> "GET", caught |-> TRUE]},
    getStudentActivity |->
        {[line |-> 1533, method |-> "GET", caught |-> FALSE],
         [line |-> 1556, method |-> "GET", caught |-> FALSE],
         [line |-> 1556, method |-> "GET", caught |-> TRUE],
         [line |-> 1565, method |-> "GET", caught |-> TRUE],
         [line |-> 1587, method |-> "GET", caught |-> TRUE]},
    getCourseDetails |->
        {[line |-> 1622, method |-> "GET", caught |-> FALSE],
         [line |-> 1627, method |-> "GET", caught |-> TRUE]},
    getCourseDiscussions |->
        {[line |-> 1661, method |-> "GET", caught |-> FALSE]},
    getTeacherActivity |->
        {[line |-> 1680, method |-> "GET", caught |-> FALSE]},
    getGradebookData |->
        {[line |-> 1709, method |-> "GET", caught |-> FALSE],
         [line |-> 1723, method |-> "GET", caught |-> FALSE],
         [line |-> 1737, method |-> "GET", caught |-> FALSE],
         [line |-> 1745, method |-> "GET", caught |-> TRUE]},
    getModuleProgress |->
        {[line |-> 1770, method |-> "GET", caught |-> FALSE],
         [line |-> 1782, method |-> "GET", caught |-> FALSE],
         [line |-> 1785, method |-> "GET", caught |-> FALSE],
         [line |-> 1794, method |-> "GET", caught |-> TRUE]},
    searchCourseContent |->
        {[line |-> 1855, method |-> "GET", caught |-> TRUE]},
    getUserEnrollments |->
        {[line |-> 1915, method |-> "GET", caught |-> FALSE]} ]

ToolNames == {t.name : t \in TOOLS}

\* The required fields of the inputSchema of a tool.
Required(name) == (CHOOSE t \in TOOLS : t.name = name).required

HasCase(name) == \E k \in Cases : k.name = name

Case(name) == CHOOSE k \in Cases : k.name = name

\* Sites with a call site of getGradingQueue turned into a POST.
SitesWithWrite(accessor) ==
    IF accessor = "getGradingQueue"
    THEN {[site EXCEPT !.method = IF site.line = 903 THEN "POST" ELSE "GET"] :
             site \in CallSites[accessor]}
    ELSE CallSites[accessor]

\* The call sites of an accessor.
Sites(accessor) == CallSites[accessor]

\* The arguments a client can send for a tool: for each required field of
\* the schema, present (with a truthy value) or omitted; a field of an
\* omitted object is omitted.
Arguments(name) ==
    {sup \in SUBSET Required(name) :
        /\ "user.name" \in sup => "user" \in sup
        /\ "pseudonym.unique_id" \in sup => "pseudonym" \in sup}

\* The URLs an accessor can address: a collection of two pages (URLs 1 and
\* 2) and a single object (URL 3).
EntryUrls == {1, 3}

ToolPage(u) == IF u = 3 THEN SubmissionPage ELSE Page(u, 2, 1, "none")

\* CallTool with a switch that has no default case: the handler returns
\* nothing for a name without a case.
CallToolNoDefault ==
    /\ tool.phase = "called"
    /\ tool' =
         IF ~HasCase(tool.name)
         THEN [tool EXCEPT !.phase = "done"]
         ELSE IF ~(Case(tool.name).validated \subseteq tool.supplied)
         THEN [tool EXCEPT !.phase = "done",
                  !.result = ToolResult(TRUE, "Error: Missing required field", NoThrown)]
         ELSE [tool EXCEPT !.phase = "accessor"]
    /\ UNCHANGED <<maxRetries, retryDelay, pages, behaviour, attempts, stack,
                   requests, waits, outcome, roster, bulk,
                   canvasTimeout, timeout, health>>

\* The call-tool handler up to the first await of its case: the switch on
\* the tool name and the test of the arguments.
CallTool ==
    /\ tool.phase = "called"
    /\ tool' =
         IF ~HasCase(tool.name)
         THEN [tool EXCEPT !.phase = "done",
                  !.result = ToolResult(TRUE, "Error: Unknown tool: toolName", NoThrown)]
         ELSE IF ~(Case(tool.name).validated \subseteq tool.supplied)
         THEN [tool EXCEPT !.phase = "done",
                  !.result = ToolResult(TRUE, "Error: Missing required field", NoThrown)]
         ELSE [tool EXCEPT !.phase = "accessor"]
    /\ UNCHANGED <<maxRetries, retryDelay, pages, behaviour, attempts, stack,
                   requests, waits, outcome, roster, bulk,
                   canvasTimeout, timeout, health>>

\* The last request of the accessor has settled in a way that lets the
\* accessor go on: it succeeded, or it failed inside a try block.
CanGoOn ==
    /\ stack[0] = <<>>
    /\ \/ tool.calls = 0
       \/ outcome[0].kind = "ok"
       \/ outcome[0].kind = "error" /\ tool.caught

\* The accessor reaches one of its call sites and awaits the request.  The
\* control flow between the call sites (conditions on the arguments, loops
\* over the entities returned) is left open: any call site can be the next.
AccessorRequest ==
    /\ tool.phase = "accessor"
    /\ CanGoOn
    /\ tool.calls < MaxCalls
    /\ \E site \in Sites(Case(tool.name).accessor), u \in EntryUrls :
         /\ stack' = [stack EXCEPT ![0] = <<NewFrame(u, site.method)>>]
         /\ tool' = [tool EXCEPT !.calls = @ + 1, !.caught = site.caught]
    /\ outcome' = [outcome EXCEPT ![0] = Pending]
    /\ UNCHANGED <<maxRetries, retryDelay, pages, behaviour, attempts,
                   requests, waits, roster, bulk,
                   canvasTimeout, timeout, health>>

\* AccessorThrows with an accessor that catches the failure and returns
\* a default value.
AccessorThrowsDefault ==
    /\ tool.phase = "accessor"
    /\ Done(0) /\ outcome[0].kind = "error" /\ ~tool.caught
    /\ tool' = [tool EXCEPT !.phase = "done",
                   !.result = ToolResult(FALSE, "JSON.stringify(result, null, 2)", NoThrown)]
    /\ UNCHANGED <<maxRetries, retryDelay, pages, behaviour, attempts, stack,
                   requests, waits, outcome, roster, bulk,
                   canvasTimeout, timeout, health>>

\* A request outside every try block has failed: the accessor rejects and
\* the catch of the handler answers with an error result.
AccessorThrows ==
    /\ tool.phase = "accessor"
    /\ Done(0) /\ outcome[0].kind = "error" /\ ~tool.caught
    /\ tool' = [tool EXCEPT !.phase = "done",
                   !.result = ToolResult(TRUE, "Error: message", outcome[0].thrown)]
    /\ UNCHANGED <<maxRetries, retryDelay, pages, behaviour, attempts, stack,
                   requests, waits, outcome, roster, bulk,
                   canvasTimeout, timeout, health>>

\* The accessor returns and the handler answers with its result as JSON.
\* An accessor whose call sites are not all inside a try block has issued
\* a request by then.
AccessorReturns ==
    /\ tool.phase = "accessor"
    /\ CanGoOn
    /\ \/ tool.calls >= 1
       \/ \A site \in Sites(Case(tool.name).accessor) : site.caught
    /\ tool' = [tool EXCEPT !.phase = "done",
                   !.result = ToolResult(FALSE, "JSON.stringify(result, null, 2)", NoThrown)]
    /\ UNCHANGED <<maxRetries, retryDelay, pages, behaviour, attempts, stack,
                   requests, waits, outcome, roster, bulk,
                   canvasTimeout, timeout, health>>

\* A tool name that is not in the catalog.
UnlistedTool == "canvas_no_such_tool"

\* A call-tool request has arrived, for a tool of the catalog or not.
InitTools ==
    /\ maxRetries = 3
    /\ retryDelay = 1000
    /\ pages = [u \in 1..3 |-> ToolPage(u)]
    /\ \E bad \in 0..3, k \in {Fail(404), Fail(503), NetFail} :
         /\ (bad = 0 => k = Fail(404))
         /\ behaviour = [u \in 1..3 |->
                           IF u = bad THEN [pre |-> <<>>, final |-> k] ELSE Healthy]
    /\ attempts = [u \in 1..3 |-> 0]
    /\ stack = [c \in {0} |-> <<>>]
    /\ requests = [c \in {0} |-> <<>>]
    /\ waits = <<>>
    /\ outcome = [c \in {0} |-> Pending]
    /\ roster = IdleRoster
    /\ \E name \in ToolNames \cup {UnlistedTool} :
         \E sup \in (IF name \in ToolNames THEN Arguments(name) ELSE {{}}) :
            tool = [IdleTool EXCEPT !.phase = "called", !.name = name,
                                    !.supplied = sup]
    /\ bulk = IdleBulk
    /\ canvasTimeout = DefaultTimeout
    /\ timeout = AxiosTimeout(canvasTimeout)
    /\ health = IdleHealth

NextTools ==
    \/ CallTool
    \/ AccessorRequest
    \/ \E c \in DOMAIN stack : Request(c)
    \/ \E c \in DOMAIN stack : OnFulfilled(c)
    \/ \E c \in DOMAIN stack : Resume(c)
    \/ \E c \in DOMAIN stack : OnRejected(c)
    \/ \E c \in DOMAIN stack : Complete(c)
    \/ AccessorThrows
    \/ AccessorReturns

SpecTools == InitTools /\ [][NextTools]_vars

---------------------------------------------------------------------------
(* One GET of a single object whose answers can be slow, with the timeout
   of the configuration read from CANVAS_TIMEOUT *)

ConfiguredTimeouts == {5000, 30000, 60000}

Latencies == {1000, 10000, 45000}

InitTimeout ==
    /\ maxRetries \in 0..MaxRetriesBound
    /\ retryDelay = 1000
    /\ pages = [u \in {SubmissionUrl} |-> SubmissionPage]
    /\ \E l \in Latencies, n \in 0..MaxFailures : \E final \in {Ok, Slow(l)} :
         behaviour = [u \in {SubmissionUrl} |->
                        [pre |-> Repeat(Slow(l), n), final |-> final]]
    /\ attempts = [u \in {SubmissionUrl} |-> 0]
    /\ stack = [c \in {0} |-> <<NewFrame(SubmissionUrl, "GET")>>]
    /\ requests = [c \in {0} |-> <<>>]
    /\ waits = <<>>
    /\ outcome = [c \in {0} |-> Pending]
    /\ roster = IdleRoster
    /\ tool = IdleTool
    /\ bulk = IdleBulk
    /\ canvasTimeout \in ConfiguredTimeouts
    /\ timeout = AxiosTimeout(canvasTimeout)
    /\ health = IdleHealth

NextTimeout ==
    \/ \E c \in DOMAIN stack : Request(c)
    \/ \E c \in DOMAIN stack : OnFulfilled(c)
    \/ \E c \in DOMAIN stack : OnRejected(c)
    \/ \E c \in DOMAIN stack : Complete(c)

SpecTimeout == InitTimeout /\ [][NextTimeout]_vars

---------------------------------------------------------------------------
(* One GET of a collection whose last page may link back to an earlier
   page, run to completion: every request settles and every handler that
   can run does run *)

\* The requests a drain of MaxPages chained pages can issue; a call is
\* followed up to this many requests.
MaxRequests == Pow2(MaxPages)

\* The link header of page u of P when the last page names page back as
\* its next page (back = NoUrl: it names none).
ChainLink(u, P, back) ==
    IF u = P /\ back # NoUrl
    THEN Link(<<[url |-> u, rel |-> "current"], [url |-> back, rel |-> "next"],
                [url |-> 1, rel |-> "first"]>>)
    ELSE CanvasLink(u, P)

ChainPage(u, P, back) ==
    [data |-> Body("array", PageItems(u, 1), ""),
     headers |-> [link |-> ChainLink(u, P, back),
                  ctype |-> "application/json; charset=utf-8"]]

\* Request, for a call that has issued fewer than MaxRequests requests.
RequestWithin(c) ==
    /\ Len(requests[c]) < MaxRequests
    /\ Request(c)

InitDrain ==
    /\ maxRetries = 3
    /\ retryDelay = 1000
    /\ \E P \in 1..MaxPages :
         /\ \E back \in {NoUrl} \cup 1..P :
              pages = [u \in 1..P |-> ChainPage(u, P, back)]
         /\ \E bad \in 0..P, k \in {Fail(503), NetFail} :
              /\ (bad = 0 => k = NetFail)
              /\ behaviour = [u \in 1..P |->
                                IF u = bad THEN [pre |-> <<>>, final |-> k]
                                ELSE Healthy]
         /\ attempts = [u \in 1..P |-> 0]
    /\ stack = [c \in {0} |-> <<NewFrame(1, "GET")>>]
    /\ requests = [c \in {0} |-> <<>>]
    /\ waits = <<>>
    /\ outcome = [c \in {0} |-> Pending]
    /\ roster = IdleRoster
    /\ tool = IdleTool
    /\ bulk = IdleBulk
    /\ canvasTimeout = DefaultTimeout
    /\ timeout = AxiosTimeout(canvasTimeout)
    /\ health = IdleHealth

NextDrain ==
    \/ \E c \in DOMAIN stack : RequestWithin(c)
    \/ \E c \in DOMAIN stack : OnFulfilled(c)
    \/ \E c \in DOMAIN stack : Resume(c)
    \/ \E c \in DOMAIN stack : OnRejected(c)
    \/ \E c \in DOMAIN stack : Complete(c)

\* Each request settles, and a handler whose promise has settled runs.
FairDrain ==
    /\ WF_vars(\E c \in DOMAIN stack : RequestWithin(c))
    /\ WF_vars(\E c \in DOMAIN stack : OnFulfilled(c))
    /\ WF_vars(\E c \in DOMAIN stack : Resume(c))
    /\ WF_vars(\E c \in DOMAIN stack : OnRejected(c))
    /\ WF_vars(\E c \in DOMAIN stack : Complete(c))

SpecDrain == InitDrain /\ [][NextDrain]_vars /\ FairDrain

---------------------------------------------------------------------------
(* healthCheck: one GET of the profile of the token's user *)

ProfileUrl == 1          \* /users/self/profile

\* The profile object Canvas serves: a body with id and name.
ProfileBody(id, name) ==
    Body("object", <<>>, "") @@ [id |-> <<id>>, name |-> <<name>>]

\* user.id, user.name: the property of a body that is neither null nor
\* undefined; <<>> when it has no such property.
Property(data, key) ==
    IF key \in DOMAIN data THEN data[key] ELSE <<>>

\* What the profile URL can answer with status 200.
ProfileBodies ==
    {ProfileBody(7, "n"), Body("object", <<>>, ""), Body("string", <<"<">>, ""),
     NullBody}

\* HealthOutcome with no try block around the profile request.
HealthOutcomeNoCatch(o) ==
    IF o.kind # "ok" \/ o.data.shape = "null"
    THEN HealthResult("raised", FALSE, <<>>, <<>>)
    ELSE HealthResult("ok", TRUE, Property(o.data, "id"), Property(o.data, "name"))

\* What healthCheck returns when getUserProfile has settled with o: reading
\* user.id of a null body throws inside the try block.
HealthOutcome(o) ==
    IF o.kind # "ok" \/ o.data.shape = "null"
    THEN HealthResult("error", FALSE, <<>>, <<>>)
    ELSE HealthResult("ok", TRUE, Property(o.data, "id"), Property(o.data, "name"))

\* getUserProfile has settled and healthCheck returns.
HealthSettled ==
    /\ health.phase = "awaiting"
    /\ Done(0)
    /\ health' = [phase |-> "done", result |-> HealthOutcome(outcome[0])]
    /\ UNCHANGED <<maxRetries, retryDelay, pages, behaviour, attempts, stack,
                   requests, waits, outcome, roster, tool, bulk,
                   canvasTimeout, timeout>>

InitHealth ==
    /\ maxRetries \in 0..MaxRetriesBound
    /\ retryDelay \in RetryDelays
    /\ \E body \in ProfileBodies :
         pages = [u \in {ProfileUrl} |->
                    [data |-> body,
                     headers |-> [link |-> NoLink,
                                  ctype |-> "application/json; charset=utf-8"]]]
    /\ \E s \in Scripts \cup {Healthy} : behaviour = [u \in {ProfileUrl} |-> s]
    /\ attempts = [u \in {ProfileUrl} |-> 0]
    /\ stack = [c \in {0} |-> <<NewFrame(ProfileUrl, "GET")>>]
    /\ requests = [c \in {0} |-> <<>>]
    /\ waits = <<>>
    /\ outcome = [c \in {0} |-> Pending]
    /\ roster = IdleRoster
    /\ tool = IdleTool
    /\ bulk = IdleBulk
    /\ canvasTimeout = DefaultTimeout
    /\ timeout = AxiosTimeout(canvasTimeout)
    /\ health = [IdleHealth EXCEPT !.phase = "awaiting"]

NextHealth ==
    \/ \E c \in DOMAIN stack : Request(c)
    \/ \E c \in DOMAIN stack : OnFulfilled(c)
    \/ \E c \in DOMAIN stack : OnRejected(c)
    \/ \E c \in DOMAIN stack : Complete(c)
    \/ HealthSettled

SpecHealth == InitHealth /\ [][NextHealth]_vars

---------------------------------------------------------------------------
(* The bulk accessors: getAssignmentAnalytics without assignment_id and
   getStudentActivity without student_id.  All their requests are awaited
   one after the other: each is call 0, started anew. *)

PrimaryUrl == 1          \* /courses/${course_id}/assignments, .../users?...

InfoUrl(e) == 10 + e     \* /courses/${courseId}/users/${studentId}
ViewsUrl(e) == 20 + e    \* /users/${studentId}/page_views?per_page=100
SubsUrl(e) == 30 + e     \* .../submissions of assignment e or of student e

\* await this.client.get(u)
StartGet(u) ==
    /\ stack' = [stack EXCEPT ![0] = <<NewFrame(u, "GET")>>]
    /\ outcome' = [outcome EXCEPT ![0] = Pending]

\* The summary pushed for entity e.
BulkEntry(e, last_login, total_page_views, submissions) ==
    [entity |-> e, last_login |-> last_login,
     total_page_views |-> total_page_views, submissions |-> submissions]

\* AfterFailure recording the entity with empty fields.
AfterFailureNullEntry(entries, e) ==
    Append(entries, BulkEntry(e, NoActivity, 0, 0))

\* The catch of the loop body: what the result is after the request for
\* entity e failed.
AfterFailure(entries, e) == entries

\* The first request of the loop body for an entity.
FirstStep(accessor) ==
    IF accessor = "getStudentActivity" THEN "info" ELSE "subs"

StepUrl(step, e) ==
    IF step = "info" THEN InfoUrl(e)
    ELSE IF step = "views" THEN ViewsUrl(e) ELSE SubsUrl(e)

\* The loop goes on to the entity after position i, the result being
\* entries so far; after the last entity the accessor returns.
NextEntity(i, entries) ==
    IF i < Len(bulk.entities)
    THEN /\ bulk' = [bulk EXCEPT !.index = i + 1, !.entries = entries,
                        !.step = FirstStep(bulk.accessor),
                        !.last_login = NoActivity, !.total_page_views = 0]
         /\ StartGet(StepUrl(FirstStep(bulk.accessor), bulk.entities[i + 1]))
    ELSE /\ bulk' = [bulk EXCEPT !.phase = "done", !.entries = entries,
                        !.result = BulkResult("ok", entries, NoThrown)]
         /\ UNCHANGED <<stack, outcome>>

\* The request for the primary list has settled.
BulkPrimarySettled ==
    /\ bulk.phase = "primary"
    /\ Done(0)
    /\ IF outcome[0].kind # "ok"
       THEN /\ bulk' = [bulk EXCEPT !.phase = "done",
                           !.result = BulkResult("error", <<>>, outcome[0].thrown)]
            /\ UNCHANGED <<stack, outcome>>
       ELSE LET list == outcome[0].data.items
            IN  IF list = <<>>
                THEN /\ bulk' = [bulk EXCEPT !.phase = "done",
                                    !.result = BulkResult("ok", <<>>, NoThrown)]
                     /\ UNCHANGED <<stack, outcome>>
                ELSE /\ bulk' = [bulk EXCEPT !.phase = "loop", !.entities = list,
                                    !.index = 1,
                                    !.step = FirstStep(bulk.accessor)]
                     /\ StartGet(StepUrl(FirstStep(bulk.accessor), list[1]))
    /\ UNCHANGED <<maxRetries, retryDelay, pages, behaviour, attempts,
                   requests, waits, roster, tool, canvasTimeout, timeout, health>>

\* A request of the loop body has settled: the body runs up to its next
\* await, or to the end of the loop.
BulkSubSettled ==
    /\ bulk.phase = "loop"
    /\ Done(0)
    /\ LET i == bulk.index
           e == bulk.entities[i]
           ok == outcome[0].kind = "ok"
           data == outcome[0].data
       IN  IF bulk.step = "info"
           THEN IF ~ok
                THEN NextEntity(i, AfterFailure(bulk.entries, e))
                ELSE LET step == IF bulk.include_page_views THEN "views" ELSE "subs"
                     IN  /\ bulk' = [bulk EXCEPT !.step = step]
                         /\ StartGet(StepUrl(step, e))
           ELSE IF bulk.step = "views"
           THEN /\ bulk' = [bulk EXCEPT !.step = "subs",
                               !.last_login = IF ok THEN LastActivity(data)
                                              ELSE NoActivity,
                               !.total_page_views = IF ok THEN Len(data.items)
                                                    ELSE 0]
                /\ StartGet(SubsUrl(e))
           ELSE IF bulk.accessor = "getStudentActivity"
           THEN NextEntity(i, Append(bulk.entries,
                    BulkEntry(e, bulk.last_login, bulk.total_page_views,
                              IF ok THEN Len(data.items) ELSE 0)))
           ELSE IF ok
           THEN NextEntity(i, Append(bulk.entries,
                    BulkEntry(e, NoActivity, 0, Len(data.items))))
           ELSE NextEntity(i, AfterFailure(bulk.entries, e))
    /\ UNCHANGED <<maxRetries, retryDelay, pages, behaviour, attempts,
                   requests, waits, roster, tool, canvasTimeout, timeout, health>>

\* What an endpoint of the bulk accessors serves: a one-page JSON array.
BulkPage(u, items) ==
    [data |-> Body("array", items, ""),
     headers |-> [link |-> Link(<<[url |-> u, rel |-> "current"]>>),
                  ctype |-> "application/json; charset=utf-8"]]

BulkUrls(n) ==
    {PrimaryUrl} \cup {InfoUrl(e) : e \in 1..n}
    \cup {ViewsUrl(e) : e \in 1..n} \cup {SubsUrl(e) : e \in 1..n}

InitBulk ==
    /\ maxRetries = 3
    /\ retryDelay = 1000
    /\ \E n \in 0..MaxEntities :
         /\ pages = [u \in BulkUrls(n) |->
                       IF u = PrimaryUrl THEN BulkPage(u, [e \in 1..n |-> e])
                       ELSE IF u > 30 THEN BulkPage(u, <<u>>)
                       ELSE IF u > 20 THEN BulkPage(u, <<100 + u>>)
                       ELSE BulkPage(u, <<u>>)]
         /\ \E failing \in SUBSET BulkUrls(n),
               failure \in {Fail(404), Fail(503), NetFail} :
              behaviour = [u \in BulkUrls(n) |->
                             IF u \in failing
                             THEN [pre |-> <<>>, final |-> failure]
                             ELSE Healthy]
         /\ attempts = [u \in BulkUrls(n) |-> 0]
    /\ stack = [c \in {0} |-> <<NewFrame(PrimaryUrl, "GET")>>]
    /\ requests = [c \in {0} |-> <<>>]
    /\ waits = <<>>
    /\ outcome = [c \in {0} |-> Pending]
    /\ roster = IdleRoster
    /\ tool = IdleTool
    /\ \E accessor \in {"getAssignmentAnalytics", "getStudentActivity"},
          ipv \in BOOLEAN :
         /\ (accessor = "getAssignmentAnalytics" => ~ipv)
         /\ bulk = [IdleBulk EXCEPT !.accessor = accessor, !.phase = "primary",
                                    !.include_page_views = ipv]
    /\ canvasTimeout = DefaultTimeout
    /\ timeout = AxiosTimeout(canvasTimeout)
    /\ health = IdleHealth

NextBulk ==
    \/ \E c \in DOMAIN stack : Request(c)
    \/ \E c \in DOMAIN stack : OnFulfilled(c)
    \/ \E c \in DOMAIN stack : OnRejected(c)
    \/ \E c \in DOMAIN stack : Complete(c)
    \/ BulkPrimarySettled
    \/ BulkSubSettled

SpecBulk == InitBulk /\ [][NextBulk]_vars

---------------------------------------------------------------------------
(* Vocabulary of the properties of one logical GET (call 0) *)

NumPages == Cardinality(DOMAIN pages)

\* Every request succeeds.
AllHealthy == \A u \in DOMAIN behaviour : behaviour[u] = Healthy

\* Every page is a JSON array carrying Canvas's link header, so that the
\* pages are chained 1 -> 2 -> ... -> NumPages by rel="next".
WellChained ==
    \A u \in DOMAIN pages :
        /\ IsArray(pages[u].data)
        /\ IsJson(pages[u].headers.ctype)
        /\ pages[u].headers.link = CanvasLink(u, NumPages)

RECURSIVE ConcatFrom(_)
ConcatFrom(u) ==
    IF u \notin DOMAIN pages THEN <<>>
    ELSE pages[u].data.items \o ConcatFrom(u + 1)

\* The follow-up requests of the call: all but the first request.
FollowUps == SubSeq(requests[0], 2, Len(requests[0]))

\* URL u fails exactly its first n requests with answer k, the rest of the
\* remote API being healthy.
FailsFirst(u, k, n) ==
    /\ behaviour[u] = [pre |-> Repeat(k, n), final |-> Ok]
    /\ \A v \in DOMAIN behaviour \ {u} : behaviour[v] = Healthy

\* URL u fails every request with answer k.
FailsAlways(u, k) ==
    /\ behaviour[u] = [pre |-> <<>>, final |-> k]
    /\ \A v \in DOMAIN behaviour \ {u} : behaviour[v] = Healthy

\* The case the drain is documented for: page u is an array with a link
\* header and a JSON content type.
ArrayLinkJson(u) ==
    /\ pages[u].data.shape = "array"
    /\ pages[u].headers.link.present
    /\ pages[u].headers.ctype \in {"application/json", "application/json; charset=utf-8"}

IsTypedError(o, status) ==
    /\ o.kind = "error"
    /\ o.thrown.name = "CanvasAPIError"
    /\ o.thrown.status = status

---------------------------------------------------------------------------
(* Properties *)

\* C1: a GET of a collection split over P >= 1 pages chained by rel="next",
\* every request succeeding, returns exactly page1 \o page2 \o ... \o pageP.
C1_PaginationConcatenates ==
    (Done(0) /\ AllHealthy /\ WellChained)
        => outcome[0] = Returned(Body("array", ConcatFrom(1), ""))

\* C2: for a P-page collection one logical call issues exactly P-1 follow-up
\* GETs and requests no page URL more than once.
C2_ExactlyPMinusOneFollowUps ==
    (Done(0) /\ AllHealthy /\ WellChained)
        => /\ Len(FollowUps) = NumPages - 1
           /\ \A i, j \in 1..Len(requests[0]) :
                  requests[0][i].url = requests[0][j].url => i = j

\* C1: a three-page collection has been drained.
C1_ThreePagesDrained ==
    Done(0) /\ AllHealthy /\ WellChained /\ NumPages = 3

\* C3: with retryDelay = 100 and maxRetries >= 2, an endpoint that answers
\* 503 twice and then succeeds ends in success after exactly three attempts.
C3_SucceedsAfterTwo503 ==
    (Done(0) /\ retryDelay = 100 /\ maxRetries >= 2 /\ FailsFirst(1, Fail(503), 2))
        => /\ outcome[0].kind = "ok"
           /\ attempts[1] = 3
           /\ (NumPages = 1 => outcome[0].data = pages[1].data)

\* C4: against an endpoint that always answers a retryable status, a client
\* with maxRetries = m makes exactly m + 1 attempts and then raises a Typed
\* Error with that status.
C4_ExhaustsAfterMaxRetries ==
    \A st \in {429, 500, 503} :
        (Done(0) /\ FailsAlways(1, Fail(st)))
            => /\ attempts[1] = maxRetries + 1
               /\ IsTypedError(outcome[0], st)

\* C5: a 4xx status other than 429 is never retried: whatever maxRetries is,
\* the URL that answered it was attempted once, nothing was requested after
\* it, and the call raises a Typed Error carrying that status.
C5_ClientErrorNotRetried ==
    \A u \in DOMAIN pages : \A st \in {400, 404} :
        (Done(0) /\ attempts[u] >= 1 /\ Answer(u, 1) = Fail(st))
            => /\ attempts[u] = 1
               /\ requests[0][Len(requests[0])].url = u
               /\ waits = <<>>
               /\ outcome[0] = Raised(ResponseError(ErrorResponse(st)))

C5_Witness ==
    /\ Done(0) /\ maxRetries = MaxRetriesBound
    /\ attempts[1] = 1 /\ Answer(1, 1) = Fail(404)
    /\ IsTypedError(outcome[0], 404)

\* C6: a failure without a response is classified retryable by shouldRetry,
\* and the call that ends on it raises a Typed Error with status 0, body
\* null and message "Network error: <underlying message>".
C6_NetworkFailure ==
    /\ \A c \in DOMAIN stack : \A i \in 1..Len(stack[c]) :
          (stack[c][i].pc = "rejected" /\ ~stack[c][i].error.hasResponse)
              => shouldRetry(stack[c][i].error)
    /\ \A u \in DOMAIN pages :
          (Done(0) /\ attempts[u] >= 1 /\ Answer(u, attempts[u]) = NetFail)
              => /\ outcome[0].kind = "error"
                 /\ outcome[0].thrown.name = "CanvasAPIError"
                 /\ outcome[0].thrown.status = 0
                 /\ outcome[0].thrown.data = NullBody
                 /\ outcome[0].thrown.message =
                        [text |-> "Network error: detail", status |-> 0,
                         detail |-> <<"message", <<>>, "socket hang up">>]

C6_Witness ==
    /\ Done(0) /\ maxRetries >= 1
    /\ FailsAlways(1, NetFail) /\ attempts[1] >= 1
    /\ IsTypedError(outcome[0], 0)

\* The retries the retry policy owes a call whose URL 1 fails with a
\* retryable answer: one per failure, at most maxRetries.
RetriesOwed ==
    IF behaviour[1].final # Ok THEN maxRetries
    ELSE Min(Len(behaviour[1].pre), maxRetries)

\* C7: the wait before the k-th retry is exactly retryDelay * 2^(k-1): with
\* retryDelay = 100 and two retryable failures the waits are 100 then 200.
C7_ExponentialBackoff ==
    \A k \in {Fail(429), Fail(500), Fail(503), NetFail} :
        (Done(0) /\ (FailsAlways(1, k) \/ \E n \in 1..MaxFailures : FailsFirst(1, k, n)))
            => /\ Len(waits) = RetriesOwed
               /\ \A i \in 1..Len(waits) : waits[i] = retryDelay * Pow2(i - 1)

\* Following the rel="next" links from page u: the pages of the collection.
RECURSIVE ChainFrom(_, _)
ChainFrom(u, fuel) ==
    IF u = NoUrl \/ fuel = 0 THEN {}
    ELSE {u} \cup (IF pages[u].headers.link.present
                   THEN ChainFrom(getNextPageUrl(pages[u].headers.link), fuel - 1)
                   ELSE {})

\* C8: a logical call (here: on a collection whose pages are all arrays)
\* ends either with a result assembled from all pages or with one Typed
\* Error, never with a prefix of the pages.
C8_ResultOrTypedError ==
    (Done(0) /\ \A u \in DOMAIN pages : pages[u].data.shape = "array") =>
        \/ /\ outcome[0].kind = "ok"
           /\ ArrayLinkJson(1) =>
                 \A u \in ChainFrom(1, NumPages) :
                     \A i \in 1..Len(pages[u].data.items) :
                         \E j \in 1..Len(outcome[0].data.items) :
                             outcome[0].data.items[j] = pages[u].data.items[i]
        \/ /\ outcome[0].kind = "error"
           /\ outcome[0].thrown.name = "CanvasAPIError"

\* C9: the drain runs only for an array body with a link header and a JSON
\* content type; any other successful response is returned unchanged and no
\* follow-up request is issued.
C9_PassThrough ==
    /\ (\E i \in 1..Len(requests[0]) : requests[0][i].url # 1)
           => ArrayLinkJson(1)
    /\ (Done(0) /\ outcome[0].kind = "ok" /\ ~ArrayLinkJson(1))
           => /\ outcome[0] = Returned(pages[1].data)
              /\ Len(requests[0]) = attempts[1]

\* An array served as text/html with a rel="next" link came back untouched.
C9_Witness ==
    /\ Done(0) /\ outcome[0].kind = "ok"
    /\ IsArray(pages[1].data) /\ ~IsJson(pages[1].headers.ctype)
    /\ getNextPageUrl(pages[1].headers.link) = 2
    /\ outcome[0].data = pages[1].data

\* The students whose page_views request fails.
FailedStudents ==
    {st \in 1..MaxStudents :
        /\ PageViewsUrl(st) \in DOMAIN behaviour
        /\ behaviour[PageViewsUrl(st)] # Healthy}

\* The students of the roster, in the order the remote API lists them.
RosterStudents ==
    pages[UsersUrl].data.items
    \o (IF 2 \in DOMAIN pages THEN pages[2].data.items ELSE <<>>)

\* C10: getCourseStudents with include_activity, the roster request
\* returning N students: whatever subset of the page_views sub-calls fails,
\* the call returns N entries, one per student, those of the failed
\* sub-calls with last_activity = null, and raises nothing.
C10_PartialAggregate ==
    (roster.phase = "done" /\ roster.include_activity /\ outcome[0].kind = "ok")
        => /\ roster.result.kind = "ok"
           /\ Len(roster.result.entries) = Len(RosterStudents)
           /\ \A i \in 1..Len(roster.result.entries) :
                 /\ roster.result.entries[i].student = RosterStudents[i]
                 /\ RosterStudents[i] \in FailedStudents
                        => roster.result.entries[i].last_activity = NoActivity

\* All the students of a full roster are returned though one sub-call failed.
C10_Witness ==
    /\ roster.phase = "done" /\ roster.include_activity
    /\ Len(RosterStudents) = MaxStudents
    /\ Cardinality(FailedStudents) = 1
    /\ roster.result.kind = "ok"
    /\ Len(roster.result.entries) = MaxStudents
    /\ \E i \in 1..MaxStudents : roster.result.entries[i].last_activity # NoActivity

\* Call 0 raised the Typed Error built from an error response.
RaisedFromResponse ==
    /\ Done(0)
    /\ outcome[0].kind = "error"
    /\ outcome[0].thrown.name = "CanvasAPIError"
    /\ outcome[0].thrown.message.text = "Canvas API Error (status): detail"

\* typeof data === 'object' of a body that is not null.
IsObject(d) == d.shape \in {"object", "array"}

HasErrorsArray(d) == d.errors.present /\ d.errors.isArray

\* The message of each element of an errors array, a string element being
\* its own message.
ElementMessages(list) ==
    [i \in 1..Len(list) |->
        IF list[i].message # "" THEN list[i].message ELSE list[i].text]

\* The detail the priority order gives body d, withMessage telling whether
\* rule (2) applies to it.
DetailByRules(d, withMessage) ==
    IF IsObject(d) /\ withMessage THEN <<"message", <<>>, d.message>>
    ELSE IF IsObject(d) /\ HasErrorsArray(d)
    THEN <<"join", ElementMessages(d.errors.list), ", ">>
    ELSE IF IsObject(d) THEN <<"JSON.stringify", d.items, d.shape>>
    ELSE <<"String", <<>>, d.shape>>

C12_Truncation ==
    (RaisedFromResponse /\ outcome[0].thrown.data.shape = "string") =>
        LET text == outcome[0].thrown.data.items
            detail == outcome[0].thrown.message.detail
        IN  /\ Len(text) > 200 =>
                  /\ Len(detail[2]) = 200
                  /\ \A i \in 1..200 : detail[2][i] = text[i]
                  /\ detail[3] = "..."
            /\ Len(text) <= 200 => (detail[2] = text /\ detail[3] = "")

\* A body of 500 characters was cut to 200 characters and the marker.
C12_Witness ==
    /\ RaisedFromResponse
    /\ outcome[0].thrown.data = Body("string", Text(500), "")
    /\ Len(outcome[0].thrown.message.detail[2]) = 200
    /\ outcome[0].thrown.message.detail[3] = "..."

\* C16: a failed request is classified retryable if and only if no response
\* was received, or the status of the response is 429, or it is >= 500.
C16_Retryable ==
    \A c \in DOMAIN stack : \A i \in 1..Len(stack[c]) :
        LET error == stack[c][i].error
        IN  stack[c][i].pc = "rejected" =>
               (shouldRetry(error) <=>
                   \/ ~error.hasResponse
                   \/ error.response.status = 429
                   \/ error.response.status >= 500)

\* A request has failed with 499, the last status that is not retryable.
C16_Witness ==
    \E c \in DOMAIN stack :
        /\ stack[c] # <<>>
        /\ Top(c).pc = "rejected"
        /\ Top(c).error.hasResponse
        /\ Top(c).error.response.status = 499
        /\ ~shouldRetry(Top(c).error)

\* C17: the retries performed for one request never exceed maxRetries, so a
\* request (here the first request of the call, the only one to URL 1) is
\* attempted at most maxRetries + 1 times whatever the remote API answers,
\* and with maxRetries = 0 nothing is ever retried.
C17_RetriesBounded ==
    /\ \A c \in DOMAIN stack : \A i \in 1..Len(stack[c]) :
          OrZero(stack[c][i].retryCount) <= maxRetries
    /\ attempts[1] <= maxRetries + 1
    /\ NumPages = 1 => Len(waits) <= maxRetries
    /\ maxRetries = 0 => (waits = <<>> /\ attempts[1] <= 1)

\* A call on an endpoint that always answers 503 has settled under the
\* largest maxRetries.
C17_Witness ==
    /\ Done(0) /\ maxRetries = MaxRetriesBound /\ NumPages = 1
    /\ FailsAlways(1, Fail(503))
    /\ attempts[1] >= 1 /\ attempts[1] <= maxRetries + 1
    /\ IsTypedError(outcome[0], 503)

\* C18: the retry policy covers the follow-up requests of the drain: with
\* maxRetries >= 1, a two-page collection whose second page answers 503 once
\* and then succeeds is returned as the concatenation of both pages.
C18_FollowUpRetried ==
    (Done(0) /\ maxRetries >= 1 /\ WellChained /\ NumPages = 2
             /\ FailsFirst(2, Fail(503), 1))
        => /\ outcome[0] = Returned(Body("array", ConcatFrom(1), ""))
           /\ attempts[2] = 2

\* C19: the retry policy does not depend on the method: a PUT (submitGrade)
\* answered 429 or a 5xx status is sent again, up to maxRetries times, so
\* with maxRetries >= 1 the remote API receives the write more than once.
C19_WriteRetried ==
    \A st \in {429, 500, 503} :
        /\ (Done(0) /\ maxRetries >= 1 /\ FailsAlways(SubmissionUrl, Fail(st)))
              => /\ attempts[SubmissionUrl] = maxRetries + 1
                 /\ \A i \in 1..Len(requests[0]) : requests[0][i].method = "PUT"
        /\ (Done(0) /\ maxRetries >= 1 /\ FailsFirst(SubmissionUrl, Fail(st), 1))
              => /\ attempts[SubmissionUrl] = 2
                 /\ outcome[0] = Returned(SubmissionPage.data)

\* What belongs to call c: its frames with their retry counters, the
\* requests it issued, its outcome.
CallState(c) == <<stack[c], requests[c], outcome[c]>>

\* C20: the retry counter belongs to one logical request: a call that has
\* not failed yet has the count 0 whatever the other call went through, and
\* in every interleaving of two calls a step of one (a failure or a retry in
\* particular) leaves the retry count, the requests and the outcome of the
\* other unchanged.
C20_PerCallCounter ==
    /\ [](\A c \in DOMAIN stack : \A i \in 1..Len(stack[c]) :
            OrZero(stack[c][i].retryCount) <= Len(requests[c]))
    /\ [][\A c, d \in DOMAIN stack :
            (c # d /\ CallState(c)' # CallState(c))
                => CallState(d)' = CallState(d)]_vars

\* Call 0 has failed on a retryable status while call 1 came back with its
\* page after one attempt.
C20_Witness ==
    /\ DOMAIN stack = {0, 1}
    /\ maxRetries >= 1
    /\ Done(0) /\ IsTypedError(outcome[0], 503)
    /\ Done(1) /\ outcome[1] = Returned(pages[OtherUrl].data)
    /\ attempts[OtherUrl] = 1

\* The 19 teacher information retrieval tools.
TeacherTools ==
    {"canvas_get_teacher_courses", "canvas_get_grading_queue",
     "canvas_get_course_students", "canvas_get_course_assignments",
     "canvas_get_upcoming_events", "canvas_get_student_performance",
     "canvas_get_course_analytics", "canvas_get_assignment_analytics",
     "canvas_get_missing_submissions", "canvas_get_course_statistics",
     "canvas_get_student_details", "canvas_get_student_activity",
     "canvas_get_course_details", "canvas_get_course_discussions",
     "canvas_get_teacher_activity", "canvas_get_gradebook_data",
     "canvas_get_module_progress", "canvas_search_course_content",
     "canvas_get_user_enrollments"}

\* C13: the 19 teacher tools are read-only: whatever the arguments and the
\* answers of the remote API, every HTTP request they issue, pagination
\* follow-ups and the requests of the accessors they call included, is a GET.
C13_TeacherToolsReadOnly ==
    /\ Cardinality(TeacherTools) = 19
    /\ TeacherTools \subseteq ToolNames
    /\ tool.name \in TeacherTools =>
          \A i \in 1..Len(requests[0]) : requests[0][i].method = "GET"

\* getGradingQueue has issued MaxCalls requests, one of them drained over
\* a follow-up.
C13_Witness ==
    /\ tool.name = "canvas_get_grading_queue"
    /\ tool.phase = "done" /\ ~tool.result.isError
    /\ tool.calls = MaxCalls
    /\ \E i \in 1..Len(requests[0]) : requests[0][i].url = 2

\* C14: every tool of the catalog has a dispatch case: a call of a listed
\* tool with all its required arguments is never answered "Unknown tool".
C14_EveryToolDispatched ==
    (tool.phase = "done" /\ tool.name \in ToolNames
                         /\ Required(tool.name) \subseteq tool.supplied)
        => tool.result.text # "Error: Unknown tool: toolName"

\* C15: a call that omits a field the schema of the tool declares as
\* required is answered with isError = true and issues no HTTP request.
C15_MissingFieldNoRequest ==
    (tool.name \in ToolNames /\ ~(Required(tool.name) \subseteq tool.supplied))
        => /\ requests[0] = <<>>
           /\ tool.phase = "done" => tool.result.isError

\* C21: the Typed Error raised for a failure with a response carries the
\* status of that response and its body unmodified, whatever the detail
\* extracted from it, and its message contains the status.
C21_StatusAndRawBody ==
    /\ \A c \in DOMAIN stack : \A i \in 1..Len(stack[c]) :
          LET f == stack[c][i]
          IN  (f.pc = "throw" /\ f.error.hasResponse)
                 => /\ f.thrown.name = "CanvasAPIError"
                    /\ f.thrown.status = f.error.response.status
                    /\ f.thrown.data = f.error.response.data
                    /\ f.thrown.message.status = f.error.response.status
    /\ \A c \in DOMAIN stack :
          (Done(c) /\ outcome[c].kind = "error" /\ behaviour[1].final.kind = "response")
             => /\ outcome[c].thrown.status = behaviour[1].final.status
                /\ outcome[c].thrown.message.status = behaviour[1].final.status

\* A text body of 500 characters is carried whole by the error whose detail
\* is cut to 200.
C21_Witness ==
    /\ Done(0) /\ IsTypedError(outcome[0], 404)
    /\ outcome[0].thrown.data = Body("string", Text(500), "")
    /\ Len(outcome[0].thrown.message.detail[2]) = 200

\* C22: a failure with neither a response nor a sent request reaches the
\* caller as the error it is: same name and message, no Typed Error, and
\* nothing is sent or waited for on its account.
C22_UnexpectedUnchanged ==
    /\ \A c \in DOMAIN stack : \A i \in 1..Len(stack[c]) :
          LET f == stack[c][i]
          IN  (f.pc = "throw" /\ f.error.name # ""
                  /\ ~f.error.hasResponse /\ ~f.error.hasRequest
                  /\ f.error.message # "")
                 => /\ f.thrown.name = f.error.name
                    /\ f.thrown.message.detail = <<"message", <<>>, f.error.message>>
                    /\ f.thrown.message.text = ""
    /\ (Done(0) /\ requests[0] = <<>>)
          => /\ outcome[0].kind = "error"
             /\ outcome[0].thrown.name \in {"AxiosError", "TypeError"}
             /\ waits = <<>>
             /\ attempts[1] = 0

\* An error that is no AxiosError has reached the caller.
C22_Witness ==
    /\ Done(0) /\ requests[0] = <<>>
    /\ outcome[0].thrown.name = "TypeError"
    /\ outcome[0].thrown.message.detail = <<"message", <<>>, "Invalid URL">>

\* C23: in the fan-out of getCourseStudents with include_activity, in every
\* interleaving and completion order: the result is assembled only after
\* every sub-call has settled, every sub-call has been issued once whatever
\* became of its siblings, each entry is what the student's own sub-call
\* gives (null when it failed), and the entries are in roster order.
C23_FanOutIsolated ==
    (roster.phase = "done" /\ roster.include_activity /\ outcome[0].kind = "ok")
        => /\ roster.result.kind = "ok"
           /\ DOMAIN roster.result.entries = DOMAIN RosterStudents
           /\ \A i \in DOMAIN RosterStudents :
                 LET st == RosterStudents[i]
                     u == PageViewsUrl(st)
                 IN  /\ Done(i)
                     /\ attempts[u] = 1
                     /\ roster.result.entries[i].settled
                     /\ roster.result.entries[i].student = st
                     /\ roster.result.entries[i].last_activity =
                           IF behaviour[u] # Healthy \/ pages[u].data.items = <<>>
                           THEN NoActivity
                           ELSE pages[u].data.items[1]

\* Two sub-calls of a full roster failed and a third gave its page view.
C23_Witness ==
    /\ roster.phase = "done" /\ roster.include_activity
    /\ Len(RosterStudents) = MaxStudents
    /\ Cardinality(FailedStudents) = 2
    /\ roster.result.kind = "ok"
    /\ \E i \in 1..MaxStudents :
          /\ RosterStudents[i] \notin FailedStudents
          /\ roster.result.entries[i].last_activity = 100 + RosterStudents[i]

\* The entities a finished bulk accessor has an entry for.
BulkEntities == [k \in 1..Len(bulk.result.entries) |-> bulk.result.entries[k].entity]

\* The positions of the primary list, in order, that are not in the set.
RECURSIVE Without(_, _, _)
Without(list, i, skipped) ==
    IF i > Len(list) THEN <<>>
    ELSE (IF i \in skipped THEN <<>> ELSE <<list[i]>>)
         \o Without(list, i + 1, skipped)

BulkFinished == bulk.phase = "done" /\ behaviour[PrimaryUrl] = Healthy

SingleResourceTools ==
    {"canvas_get_course", "canvas_get_assignment", "canvas_submit_grade"}

\* C25: a single-resource accessor whose request failed raises the error
\* the transport produced for that failure, with its status, body and
\* message; it never returns a value instead.
C25_TransportErrorRaised ==
    (/\ tool.name \in SingleResourceTools
     /\ tool.phase = "done"
     /\ tool.calls >= 1
     /\ outcome[0].kind = "error")
        => /\ tool.result.isError
           /\ \E u \in DOMAIN behaviour :
                /\ behaviour[u] # Healthy
                /\ requests[0][Len(requests[0])].url = u
                /\ tool.result.thrown = TransformError(Rejection(behaviour[u].final))
                /\ tool.result.thrown.name = "CanvasAPIError"
                /\ tool.result.thrown.status = behaviour[u].final.status
                /\ behaviour[u].final.kind = "response"
                      => tool.result.thrown.data = ErrorBody(behaviour[u].final.status)

\* submitGrade raised the error of a PUT answered 503.
C25_Witness ==
    /\ tool.name = "canvas_submit_grade"
    /\ tool.phase = "done"
    /\ requests[0] # <<>>
    /\ requests[0][Len(requests[0])].method = "PUT"
    /\ tool.result.isError
    /\ tool.result.thrown.status = 503

\* C26: a drain whose requests all succeed with array pages stops at the
\* first fetched page without a rel="next" link and returns normally, both
\* when that page's link header lists only other relations and when the
\* page has no link header.
C26_StopsWithoutNext ==
    (/\ Done(0)
     /\ AllHealthy
     /\ ArrayLinkJson(1)
     /\ \A u \in DOMAIN pages : pages[u].data.shape = "array")
        => /\ outcome[0].kind = "ok"
           /\ \A i \in 1..Len(requests[0]) :
                requests[0][i].url \in ChainFrom(1, NumPages)

\* C27: the timeout of a request is the one given in the configuration: a
\* call whose every answer arrives within it succeeds at once, and a call
\* whose first answer takes longer is retried as a network failure.
C27_ConfiguredTimeout ==
    Done(0) =>
        LET first == Answer(SubmissionUrl, 1)
        IN  /\ timeout = canvasTimeout
            /\ (first.kind = "slow" /\ first.latency > canvasTimeout /\ maxRetries >= 1)
                  => attempts[SubmissionUrl] >= 2
            /\ (first.kind = "ok" \/ first.latency <= canvasTimeout)
                  => outcome[0].kind = "ok" /\ attempts[SubmissionUrl] = 1

\* C28: the call-tool handler always answers: with the result of the
\* accessor as content, or with isError and a text made of "Error: " and
\* the message of the failure, which for a failed request is the error the
\* transport raised; a name without a dispatch case is answered with an
\* error and no HTTP request.
C28_HandlerAlwaysAnswers ==
    /\ tool.phase = "done" =>
          \/ /\ ~tool.result.isError
             /\ tool.result.text = "JSON.stringify(result, null, 2)"
             /\ HasCase(tool.name)
          \/ /\ tool.result.isError
             /\ tool.result.text \in {"Error: Unknown tool: toolName",
                                      "Error: Missing required field",
                                      "Error: message"}
             /\ tool.result.text = "Error: message"
                   => /\ outcome[0].kind = "error"
                      /\ tool.result.thrown = outcome[0].thrown
    /\ ~HasCase(tool.name) =>
          /\ requests[0] = <<>>
          /\ tool.phase = "done" =>
                /\ tool.result.isError
                /\ tool.result.text = "Error: Unknown tool: toolName"
    /\ (tool.phase = "accessor" /\ Done(0) /\ outcome[0].kind = "error" /\ ~tool.caught)
          => ENABLED AccessorThrows

\* A name outside the catalog was answered with an error.
C28_Witness ==
    /\ tool.name = UnlistedTool
    /\ tool.phase = "done"
    /\ tool.result.isError
    /\ requests[0] = <<>>

\* The last page names a next page: the chain of next links loops.
Looping ==
    \E i \in 1..Len(pages[NumPages].headers.link.rels) :
        pages[NumPages].headers.link.rels[i].rel = "next"

\* C29: a logical call whose requests all settle and whose chain of next
\* links is finite and acyclic eventually completes; when the chain loops
\* and every request succeeds, the call never completes.
C29_Terminates ==
    /\ ~Looping => <>Done(0)
    /\ (Looping /\ AllHealthy) => [](~Done(0))

\* A call over three chained pages has completed.
C29_Witness ==
    /\ NumPages = 3
    /\ ~Looping
    /\ AllHealthy
    /\ Done(0)
    /\ Len(requests[0]) >= 3

\* C30 as stated: healthCheck returns 'ok' with the user's id and name
\* exactly when the profile request succeeded, and 'error' with no user
\* for every failure.
C30_OkIffRequestSucceeded ==
    health.phase = "done" =>
        /\ health.result.status \in {"ok", "error"}
        /\ health.result.status = "ok" <=> outcome[0].kind = "ok"
        /\ health.result.status = "ok" =>
              /\ health.result.hasUser
              /\ health.result.user.id = Property(pages[ProfileUrl].data, "id")
              /\ health.result.user.name = Property(pages[ProfileUrl].data, "name")
        /\ health.result.status = "error" => ~health.result.hasUser

\* C30 amended: healthCheck never raises; it returns 'ok' with the id and
\* name of the body exactly when the profile request succeeded with a body
\* that is not null, and 'error' with no user otherwise.
C30_OkIffProfileRead ==
    health.phase = "done" =>
        /\ health.result.status \in {"ok", "error"}
        /\ health.result.status = "ok"
              <=> (outcome[0].kind = "ok" /\ pages[ProfileUrl].data # NullBody)
        /\ health.result.status = "ok" =>
              /\ health.result.hasUser
              /\ health.result.user.id = Property(pages[ProfileUrl].data, "id")
              /\ health.result.user.name = Property(pages[ProfileUrl].data, "name")
        /\ health.result.status = "error" => ~health.result.hasUser

\* healthCheck answered 'error' for a profile request answered 503.
C30_Witness ==
    /\ health.phase = "done"
    /\ health.result.status = "error"
    /\ IsTypedError(outcome[0], 503)
    /\ pages[ProfileUrl].data = ProfileBody(7, "n")

====
